---------------------------- MODULE Spec2Model ----------------------------
(***************************************************************************)
(* A model of the MCP node generator of dify-patcher:                      *)
(*   src/generator/schema_extractor.py  (MCPToolSchema, MCPSchemaExtractor)*)
(*   src/generator/node_generator.py    (CustomNodeGenerator)              *)
(*                                                                         *)
(* Text is modelled as a sequence of one-character strings, so that the    *)
(* regular-expression passes of the identifier derivation are computed     *)
(* character by character, as the code computes them.                      *)
(***************************************************************************)
EXTENDS Integers, Sequences, FiniteSets, TLC

VARIABLES
    \* -- construction of one schema (MCPToolSchema)
    name,        \* MCPToolSchema.name of the schema under construction
    node_type,   \* MCPToolSchema.node_type (derived)
    class_name,  \* MCPToolSchema.class_name (derived)
    dpc,         \* position of the construction: "off" | "new" | "built"
    \* -- one extractor and its caller (MCPSchemaExtractor)
    server_url,  \* MCPSchemaExtractor.server_url
    tools,       \* MCPSchemaExtractor._tools
    pc,          \* position of the running call: "off" | "idle" | "open" |
                 \*   "read" | "post" | "await"
    endpoint_url,\* local endpoint_url of _extract_via_sse
    linesRead,   \* the stream lines iter_lines() has yielded in this call
    opens,       \* stream requests issued by the running/last fetch
    posts,       \* tools/list requests issued by the running/last fetch
    postTarget,  \* URL the last tools/list request was addressed to
    outcome,     \* how the last call ended: returned value or raised exception
    file,        \* content of the schema file on disk
    \* -- one generator and its caller (CustomNodeGenerator)
    fs,          \* the files under output_dir: path -> content
    genArgs,     \* the arguments of the last generate call
    genResult,   \* the directory the last generate call returned
    gpc,         \* "off" | "idle"
    prevArgs,    \* (history) the arguments of the generate call before the last
    fsBefore,    \* (history) fs as it was when the last generate call began
    prevResult,  \* (history) what the generate call before the last returned
    failedAt,    \* (history) the write of the last generate call that failed,
                 \*   counted from 1; 0 when none failed
    writeFailed, \* whether a write has failed: the disk fails at most once
    \* -- the type mapping of one parameter schema (MCPToolSchema.get_*_type)
    prop_schema, \* the parameter schema handed to the two methods
    ts_type,     \* how get_typescript_type(prop_schema) ended
    py_type,     \* how get_python_type(prop_schema) ended
    \* -- one run of a generated backend node (the _run of node.py)
    program,     \* the generate call and the node.py it wrote
    node_data,   \* the inputs the host configured for the node
    rpc,         \* position of the run: "off" | "idle" | "await" | "done"
    tool_params, \* local tool_params of _run
    invocations, \* the tool invocations sent in this run
    run_result,  \* what the run ended with
    \* -- the manifest inputs and the frontend generated for one schema
    front_schema,    \* the schema handed to generate
    fpc,             \* position in generate: "off" | "manifest" | "backend" |
                     \*   "panel" | "default" | "ready" | "failed" | "checked"
    manifest_inputs, \* what _generate_input_schema returned
    node_py,         \* what _generate_node_py returned
    panel,           \* the field blocks of _generate_panel_tsx
    default_ts,      \* the defaults and checks of _generate_default_ts
    payload,         \* the payload handed to checkValid
    valid_result,    \* what checkValid returned
    \* -- a caller that generates a list of schemas
    bmode,       \* "off" | "cli" (cmd_generate) | "all" (generate_all)
    batch,       \* the list of schemas and the server_url
    bpos,        \* how many elements of the list have been handled
    paths,       \* what the comprehension of generate_all has collected
    reports,     \* the lines the loop of cmd_generate has printed
    attempts,    \* the calls of generate made: tool name and failing write
    bresult      \* what the caller returned or raised; None while it runs

dvars == <<name, node_type, class_name, dpc>>
tvars == <<server_url, tools, pc, endpoint_url, linesRead, opens, posts,
           postTarget, outcome, file>>
gvars == <<fs, genArgs, genResult, gpc, prevArgs, fsBefore, prevResult,
           failedAt, writeFailed>>
mvars == <<prop_schema, ts_type, py_type>>
rvars == <<program, node_data, rpc, tool_params, invocations, run_result>>
fvars == <<front_schema, fpc, manifest_inputs, node_py, panel, default_ts, payload,
           valid_result>>
bvars == <<bmode, batch, bpos, paths, reports, attempts, bresult>>
vars == <<dvars, tvars, gvars, mvars, rvars, fvars, bvars>>

-----------------------------------------------------------------------------
(* Characters *)

MaxNameLen == 3

LowerLetters == <<"a","b","c","d","e","f","g","h","i","j","k","l","m",
                  "n","o","p","q","r","s","t","u","v","w","x","y","z">>
UpperLetters == <<"A","B","C","D","E","F","G","H","I","J","K","L","M",
                  "N","O","P","Q","R","S","T","U","V","W","X","Y","Z">>
Digits == {"0","1","2","3","4","5","6","7","8","9"}

\* A letter outside ASCII, in its two cases ("e" with an acute accent); the
\* tokens stand for the single characters U+00E9 and U+00C9.
NonAsciiLower == "e'"
NonAsciiUpper == "E'"

Range(s) == {s[i] : i \in DOMAIN s}

IsLowerAscii(c) == c \in Range(LowerLetters)
IsUpperAscii(c) == c \in Range(UpperLetters)
IndexOf(c, s) == CHOOSE i \in DOMAIN s : s[i] = c

\* str.lower() on one character
LowerChar(c) ==
    IF IsUpperAscii(c) THEN LowerLetters[IndexOf(c, UpperLetters)]
    ELSE IF c = NonAsciiUpper THEN NonAsciiLower
    ELSE c

\* str.upper() on one character
UpperChar(c) ==
    IF IsLowerAscii(c) THEN UpperLetters[IndexOf(c, LowerLetters)]
    ELSE IF c = NonAsciiLower THEN NonAsciiUpper
    ELSE c

\* str.lower()
StrLower(s) == [i \in DOMAIN s |-> LowerChar(s[i])]

\* the character class [a-zA-Z0-9] of the regular expressions
IsAsciiAlnum(c) == IsLowerAscii(c) \/ IsUpperAscii(c) \/ c \in Digits

\* the character class [_\-\s]
IsSplitChar(c) == c \in {"_", "-", " ", "\t"}

-----------------------------------------------------------------------------
(* MCPToolSchema._generate_node_type *)

\* re.sub(r'[^a-zA-Z0-9]', '-', s)
SubNonAlnum(s) == [i \in DOMAIN s |-> IF IsAsciiAlnum(s[i]) THEN s[i] ELSE "-"]

\* re.sub(r'-+', '-', s)
RECURSIVE CollapseHyphens(_)
CollapseHyphens(s) ==
    IF Len(s) <= 1 THEN s
    ELSE IF s[1] = "-" /\ s[2] = "-" THEN CollapseHyphens(Tail(s))
    ELSE <<s[1]>> \o CollapseHyphens(Tail(s))

RECURSIVE LStrip(_, _)
LStrip(s, c) == IF s # <<>> /\ s[1] = c THEN LStrip(Tail(s), c) ELSE s

RECURSIVE RStrip(_, _)
RStrip(s, c) ==
    IF s # <<>> /\ s[Len(s)] = c THEN RStrip(SubSeq(s, 1, Len(s) - 1), c) ELSE s

\* (mutant) the hyphens at the ends are kept
StripHyphens_None(s) == s

\* str.strip('-')
StripHyphens(s) == RStrip(LStrip(s, "-"), "-")

GenerateNodeType(n) ==
    <<"m","c","p","-">> \o StripHyphens(CollapseHyphens(SubNonAlnum(StrLower(n))))

-----------------------------------------------------------------------------
(* MCPToolSchema._generate_class_name *)

\* re.split(r'[_\-\s]+', s): the words between the runs of split characters,
\* the empty words at either end included
RECURSIVE SplitRec(_, _, _)
SplitRec(s, cur, prevSep) ==
    IF s = <<>> THEN <<cur>>
    ELSE IF IsSplitChar(Head(s))
         THEN IF prevSep THEN SplitRec(Tail(s), cur, TRUE)
              ELSE <<cur>> \o SplitRec(Tail(s), <<>>, TRUE)
         ELSE SplitRec(Tail(s), Append(cur, Head(s)), FALSE)

ReSplit(s) == SplitRec(s, <<>>, FALSE)

\* (mutant) only the first character is changed
Capitalize_FirstOnly(w) ==
    [i \in DOMAIN w |-> IF i = 1 THEN UpperChar(w[i]) ELSE w[i]]

\* str.capitalize(): first character upper-cased, the rest lower-cased
Capitalize(w) ==
    [i \in DOMAIN w |-> IF i = 1 THEN UpperChar(w[i]) ELSE LowerChar(w[i])]

\* ''.join(word.capitalize() for word in words if word)
RECURSIVE JoinCapitalized(_)
JoinCapitalized(words) ==
    IF words = <<>> THEN <<>>
    ELSE (IF Head(words) # <<>> THEN Capitalize(Head(words)) ELSE <<>>)
         \o JoinCapitalized(Tail(words))

GenerateClassName(n) ==
    <<"M","C","P">> \o JoinCapitalized(ReSplit(n)) \o <<"N","o","d","e">>

-----------------------------------------------------------------------------
(* Construction of one schema: MCPToolSchema.__post_init__ *)

Alphabet == {"a", "B", "1", "_", "-", " ", ".", NonAsciiLower}

SeqsUpTo(S, n) == UNION {[1..k -> S] : k \in 0..n}

list_directory == <<"l","i","s","t","_","d","i","r","e","c","t","o","r","y">>

Names == SeqsUpTo(Alphabet, MaxNameLen) \cup {list_directory}

DInit ==
    /\ name \in Names
    /\ node_type = <<>>
    /\ class_name = <<>>
    /\ dpc = "new"

PostInit ==
    /\ dpc = "new"
    /\ node_type' = GenerateNodeType(name)
    /\ class_name' = GenerateClassName(name)
    /\ dpc' = "built"
    /\ UNCHANGED <<name, tvars, gvars, mvars, rvars, fvars, bvars>>


-----------------------------------------------------------------------------
(* Python values and JSON documents.                                       *)
(* A Python value is a record tagged with its type; a dict is the sequence *)
(* of its <<key, value>> items in insertion order.  A JSON document is     *)
(* tagged with the JSON kinds; "garbage" is text that is not JSON.         *)

PyNone == [t |-> "None"]
Str(s) == [t |-> "str", v |-> s]
PyInt(n) == [t |-> "int", v |-> n]
Dict(items) == [t |-> "dict", v |-> items]
List(elems) == [t |-> "list", v |-> elems]
PyBool(b) == [t |-> "bool", v |-> b]

JNull == [t |-> "null"]
JStr(s) == [t |-> "string", v |-> s]
JNum(n) == [t |-> "number", v |-> n]
JObj(items) == [t |-> "object", v |-> items]
JArr(elems) == [t |-> "array", v |-> elems]
JGarbage == [t |-> "garbage"]

\* json.loads / json.load / Response.json on a decodable document
RECURSIVE JsonLoads(_)
JsonLoads(j) ==
    CASE j.t = "null" -> PyNone
      [] j.t = "string" -> Str(j.v)
      [] j.t = "number" -> PyInt(j.v)
      [] j.t = "object" ->
            Dict([i \in DOMAIN j.v |-> <<j.v[i][1], JsonLoads(j.v[i][2])>>])
      [] j.t = "array" -> List([i \in DOMAIN j.v |-> JsonLoads(j.v[i])])

\* json.dump
RECURSIVE JsonDumps(_)
JsonDumps(p) ==
    CASE p.t = "None" -> JNull
      [] p.t = "str" -> JStr(p.v)
      [] p.t = "int" -> JNum(p.v)
      [] p.t = "dict" ->
            JObj([i \in DOMAIN p.v |-> <<p.v[i][1], JsonDumps(p.v[i][2])>>])
      [] p.t = "list" -> JArr([i \in DOMAIN p.v |-> JsonDumps(p.v[i])])

\* key in d, d[key], d.get(key, default) for a dict d
Has(d, k) == \E i \in DOMAIN d.v : d.v[i][1] = k
Item(d, k) == d.v[CHOOSE i \in DOMAIN d.v : d.v[i][1] = k][2]
Get(d, k, dflt) == IF Has(d, k) THEN Item(d, k) ELSE dflt

\* bool(x)
Truthy(x) ==
    CASE x.t = "None" -> FALSE
      [] x.t = "int" -> x.v # 0
      [] x.t = "bool" -> x.v
      [] OTHER -> x.v # <<>>

DigitChars == <<"0","1","2","3","4","5","6","7","8","9">>

\* str(x), as an f-string formats a value
PyStr(x) ==
    CASE x.t = "str" -> x.v
      [] x.t = "int" -> IF x.v \in 0..9 THEN <<DigitChars[x.v + 1]>> ELSE <<"?">>
      [] x.t = "None" -> <<"N","o","n","e">>
      [] OTHER -> <<"?">>

\* sub in s, for two texts
Contains(s, sub) ==
    \E i \in 1..(Len(s) - Len(sub) + 1) : SubSeq(s, i, i + Len(sub) - 1) = sub

\* s.endswith(suf)
EndsWith(s, suf) ==
    Len(s) >= Len(suf) /\ SubSeq(s, Len(s) - Len(suf) + 1, Len(s)) = suf

\* how a call ends: the operation, the value returned or the exception raised,
\* and what the operation received last (a response, a stream line, a file)
JNothing == [what |-> "nothing", doc |-> JNull]
FromResponse(resp) == [what |-> "response", doc |-> resp]
FromLine(line) == [what |-> "line", doc |-> line]
FromFile(content) == [what |-> "file", doc |-> content]
NoOutcome ==
    [kind |-> "none", op |-> "", exc |-> "", value |-> <<>>, src |-> JNothing]
Returned(op, val, src) ==
    [kind |-> "return", op |-> op, exc |-> "", value |-> val, src |-> src]
Raised(op, e, src) ==
    [kind |-> "raise", op |-> op, exc |-> e, value |-> <<>>, src |-> src]

-----------------------------------------------------------------------------
(* MCPToolSchema: construction, to_dict, from_dict *)

\* MCPToolSchema(name, description, input_schema, output_schema, annotations)
\* followed by __post_init__
NewSchema(n, d, i, o, a) ==
    [name |-> n, description |-> d, input_schema |-> i, output_schema |-> o,
     annotations |-> a,
     node_type |-> Str(GenerateNodeType(n.v)),
     class_name |-> Str(GenerateClassName(n.v))]

\* (mutant) a record without a name is reported as any other bad value
ItemError_Generic(item) ==
    IF item.t # "dict" THEN "TypeError"
    ELSE IF ~Has(item, "name") THEN "ValueError"
    ELSE IF Item(item, "name").t # "str" THEN "AttributeError"
    ELSE "none"

\* The exception building a schema from one raw item raises, "none" if none:
\* item['name'] on a non-dict (TypeError) or without the key (KeyError);
\* self.name.lower() in __post_init__ on a name that is no str (AttributeError)
ItemError(item) ==
    IF item.t # "dict" THEN "TypeError"
    ELSE IF ~Has(item, "name") THEN "KeyError"
    ELSE IF Item(item, "name").t # "str" THEN "AttributeError"
    ELSE "none"

\* the MCPToolSchema(...) expression of _extract_via_http / _extract_via_sse
SchemaFromTool(tool) ==
    NewSchema(Item(tool, "name"),
              Get(tool, "description", PyNone),
              Get(tool, "inputSchema", Dict(<<>>)),
              Get(tool, "outputSchema", PyNone),
              Get(tool, "annotations", PyNone))

\* (mutant) the keys of the wire format are read
FromDict_WireKeys(data) ==
    NewSchema(Item(data, "name"),
              Get(data, "description", PyNone),
              Get(data, "inputSchema", Dict(<<>>)),
              Get(data, "outputSchema", PyNone),
              Get(data, "annotations", PyNone))

\* (mutant) the derived fields stored in the record are kept
FromDict_StoredDerived(data) ==
    [NewSchema(Item(data, "name"),
               Get(data, "description", PyNone),
               Get(data, "input_schema", Dict(<<>>)),
               Get(data, "output_schema", PyNone),
               Get(data, "annotations", PyNone))
     EXCEPT !.node_type = Get(data, "node_type", @),
            !.class_name = Get(data, "class_name", @)]

\* MCPToolSchema.from_dict
FromDict(data) ==
    NewSchema(Item(data, "name"),
              Get(data, "description", PyNone),
              Get(data, "input_schema", Dict(<<>>)),
              Get(data, "output_schema", PyNone),
              Get(data, "annotations", PyNone))

\* MCPToolSchema.to_dict
ToDict(s) ==
    Dict(<< <<"name", s.name>>,
            <<"description", s.description>>,
            <<"input_schema", s.input_schema>>,
            <<"output_schema", s.output_schema>>,
            <<"annotations", s.annotations>>,
            <<"node_type", s.node_type>>,
            <<"class_name", s.class_name>> >>)

\* `for x in v`: the exception it raises, and the items it yields
IterError(x) == IF x.t \in {"list", "dict", "str"} THEN "none" ELSE "TypeError"
IterItems(x) ==
    CASE x.t = "list" -> x.v
      [] x.t = "dict" -> [i \in DOMAIN x.v |-> Str(<<x.v[i][1]>>)]
      [] x.t = "str" -> [i \in DOMAIN x.v |-> Str(<<x.v[i]>>)]

\* (mutant) an item whose name was seen before is left out
RECURSIVE DropRepeated(_)
DropRepeated(items) ==
    IF items = <<>> THEN <<>>
    ELSE LET front == DropRepeated(SubSeq(items, 1, Len(items) - 1))
             last == items[Len(items)]
         IN  IF \E k \in DOMAIN front :
                    front[k].t = "dict" /\ last.t = "dict"
                    /\ Get(front[k], "name", PyNone) = Get(last, "name", PyInt(0))
             THEN front ELSE Append(front, last)

Comprehension_Dedup(items, fromFile) ==
    IF \E i \in DOMAIN items : ItemError(items[i]) # "none"
    THEN LET k == CHOOSE i \in DOMAIN items :
                    /\ ItemError(items[i]) # "none"
                    /\ \A j \in 1..(i - 1) : ItemError(items[j]) = "none"
         IN  [exc |-> ItemError(items[k]), value |-> <<>>]
    ELSE [exc |-> "none",
          value |-> [i \in DOMAIN DropRepeated(items) |->
                        IF fromFile THEN FromDict(DropRepeated(items)[i])
                        ELSE SchemaFromTool(DropRepeated(items)[i])]]

\* [MCPToolSchema(...) for tool in items], or with from_dict when the items
\* come from a file: the first failing item decides the exception and nothing
\* of the list built so far is kept
Comprehension(items, fromFile) ==
    IF \E i \in DOMAIN items : ItemError(items[i]) # "none"
    THEN LET k == CHOOSE i \in DOMAIN items :
                    /\ ItemError(items[i]) # "none"
                    /\ \A j \in 1..(i - 1) : ItemError(items[j]) = "none"
         IN  [exc |-> ItemError(items[k]), value |-> <<>>]
    ELSE [exc |-> "none",
          value |-> [i \in DOMAIN items |->
                        IF fromFile THEN FromDict(items[i])
                        ELSE SchemaFromTool(items[i])]]

Fails(e) == [exc |-> e, value |-> <<>>]

\* _extract_via_http lines 213-225 (the same as _extract_via_sse 268-280):
\* decode the body and build the schemas
ParseToolsList(body) ==
    IF body.t = "garbage" THEN Fails("JSONDecodeError")
    ELSE LET result == JsonLoads(body) IN
    IF result.t # "dict" THEN Fails("AttributeError")
    ELSE LET inner == Get(result, "result", Dict(<<>>)) IN
    IF inner.t # "dict" THEN Fails("AttributeError")
    ELSE LET tools_data == Get(inner, "tools", List(<<>>)) IN
    IF IterError(tools_data) # "none" THEN Fails(IterError(tools_data))
    ELSE Comprehension(IterItems(tools_data), FALSE)

\* MCPSchemaExtractor.from_json_file on the content of the file
NoFile == [t |-> "absent"]

LoadFile(content) ==
    IF content = NoFile THEN Fails("FileNotFoundError")
    ELSE IF content.t = "garbage" THEN Fails("JSONDecodeError")
    ELSE LET data == JsonLoads(content) IN
    IF data.t # "list" /\ data.t # "dict" THEN Fails("AttributeError")
    ELSE LET tools_data == IF data.t = "list" THEN data
                           ELSE Get(data, "tools", List(<<>>)) IN
    IF IterError(tools_data) # "none" THEN Fails(IterError(tools_data))
    ELSE Comprehension(IterItems(tools_data), TRUE)

\* MCPSchemaExtractor.save_schemas: the document written
SavedDocument(ts) == JsonDumps(List([i \in DOMAIN ts |-> ToDict(ts[i])]))

-----------------------------------------------------------------------------
(* The remote server and the files on disk: what the environment may answer *)

MaxLines == 3
MaxTools == 2

\* "http://h/mcp", "http://h/sse"
UrlMcp == <<"h","t","t","p",":","/","/","h","/","m","c","p">>
UrlSse == <<"h","t","t","p",":","/","/","h","/","s","s","e">>
\* "http://h/mcp?a=/sse": the path of UrlMcp, with a query
UrlQuery == UrlMcp \o <<"?","a","=","/","s","s","e">>
ServerUrls == {UrlMcp, UrlSse, UrlQuery}

\* session endpoints a server may announce: "http://h/m1", "http://h/m2"
Session1 == <<"h","t","t","p",":","/","/","h","/","m","1">>
Session2 == <<"h","t","t","p",":","/","/","h","/","m","2">>

\* the index of the first character of s at or after `from` that is in S,
\* Len(s) + 1 if there is none
FirstIdx(s, from, S) ==
    IF \E i \in from..Len(s) : s[i] \in S
    THEN CHOOSE i \in from..Len(s) :
            s[i] \in S /\ \A j \in from..(i - 1) : s[j] \notin S
    ELSE Len(s) + 1

\* urlparse(url).path
UrlPath(u) ==
    LET c == FirstIdx(u, 1, {":"})
        p == IF SubSeq(u, c + 1, c + 2) = <<"/", "/">>
             THEN FirstIdx(u, c + 3, {"/", "?", "#"})
             ELSE c + 1
        q == FirstIdx(u, p, {"?", "#"})
    IN  SubSeq(u, p, q - 1)

\* _extract_tools_standalone: the condition that selects _extract_via_sse
UsesSse(url) ==
    Contains(url, <<"/","s","s","e">>) \/ EndsWith(UrlPath(url), <<"/","s","s","e">>)

\* One line of the event stream, as iter_lines() yields it: whether it starts
\* with "data: ", and the text after that prefix as a JSON document
NonDataLine == [data |-> FALSE, payload |-> JNull]
DataLine(j) == [data |-> TRUE, payload |-> j]
EndpointEvent(e) == DataLine(JObj(<< <<"endpoint", JStr(e)>> >>))
PingEvent == DataLine(JObj(<< <<"type", JStr(<<"p">>)>> >>))

Lines ==
    {NonDataLine, PingEvent, DataLine(JGarbage), DataLine(JNum(5)),
     EndpointEvent(<<>>), EndpointEvent(Session1), EndpointEvent(Session2)}

\* Raw tool records a server may list
SchemaPath ==
    JObj(<< <<"properties",
              JObj(<< <<"path", JObj(<< <<"type", JStr(<<"s">>)>> >>)>> >>)>>,
            <<"required", JArr(<<JStr(<<"p">>)>>)>> >>)

RawFull ==
    JObj(<< <<"name", JStr(<<"a","_","B">>)>>,
            <<"description", JStr(<<"d">>)>>,
            <<"inputSchema", SchemaPath>>,
            <<"outputSchema", JObj(<<>>)>>,
            <<"annotations", JObj(<< <<"ro", JNum(1)>> >>)>> >>)
RawNameOnly == JObj(<< <<"name", JStr(<<"a","-","b">>)>> >>)
RawNoName == JObj(<< <<"description", JStr(<<"d">>)>> >>)
RawBadName == JObj(<< <<"name", JNum(7)>> >>)
RawNotObject == JStr(<<"a">>)

RawTools == {RawFull, RawNameOnly, RawNoName, RawBadName, RawNotObject}

ToolsBody(records) ==
    JObj(<< <<"jsonrpc", JStr(<<"2">>)>>, <<"id", JNum(1)>>,
            <<"result", JObj(<< <<"tools", JArr(records)>> >>)>> >>)

\* Response bodies: a tool listing, and the bodies of another structure
Bodies ==
    {ToolsBody(r) : r \in SeqsUpTo(RawTools, MaxTools)} \cup
    {JGarbage,
     JArr(<<>>),
     JObj(<< <<"jsonrpc", JStr(<<"2">>)>>, <<"id", JNum(1)>>,
             <<"error", JObj(<< <<"code", JNum(1)>> >>)>> >>),
     JObj(<< <<"result", JNull>> >>),
     JObj(<< <<"result", JObj(<<>>)>> >>),
     JObj(<< <<"result", JObj(<< <<"tools", JNull>> >>)>> >>)}

\* A response: the connection failed, or a status code with a body
NetworkFailure == [kind |-> "network", status |-> 0, body |-> JNull]
Http(status, body) == [kind |-> "http", status |-> status, body |-> body]

StreamResponses == {NetworkFailure, Http(200, JNull), Http(500, JNull)}
PostResponses ==
    {NetworkFailure, Http(500, JNull)} \cup {Http(200, b) : b \in Bodies}

\* Response.raise_for_status raises unless the status is 2xx
IsSuccess(status) == status \in 200..299

\* Schema files of other paths, not written by save_schemas
FileRecord(n, nt) ==
    JObj(<< <<"name", JStr(n)>>,
            <<"description", JNull>>,
            <<"input_schema", SchemaPath>>,
            <<"node_type", JStr(nt)>>,
            <<"class_name", JStr(<<"X">>)>> >>)

OtherFiles ==
    {JGarbage,
     JArr(<<FileRecord(<<"a","_","B">>, <<"x">>)>>),
     JObj(<< <<"tools", JArr(<<FileRecord(<<"-">>, <<"m","c","p","-","y">>)>>)>> >>),
     JArr(<<FileRecord(<<"a">>, <<"m","c","p","-","a">>),
            JObj(<< <<"description", JStr(<<"d">>)>> >>)>>)}

-----------------------------------------------------------------------------
(* MCPSchemaExtractor: one extractor, called by a single-threaded caller *)

\* `'endpoint' in data` and `data['endpoint']` of _extract_via_sse
EndpointKey == <<"e","n","d","p","o","i","n","t">>
InError(data) == IF data.t \in {"None", "int"} THEN "TypeError" ELSE "none"
HasEndpoint(data) ==
    CASE data.t = "dict" -> Has(data, "endpoint")
      [] data.t = "list" -> \E i \in DOMAIN data.v : data.v[i] = Str(EndpointKey)
      [] data.t = "str" -> Contains(data.v, EndpointKey)

\* The body of the `for line in response.iter_lines()` loop on one line:
\* the exception it raises, whether it breaks, and the endpoint it then holds
Skip == [exc |-> "none", found |-> FALSE, value |-> PyNone]
ProcessLine(line) ==
    IF ~line.data THEN Skip
    ELSE IF line.payload.t = "garbage"
         THEN [exc |-> "JSONDecodeError", found |-> FALSE, value |-> PyNone]
    ELSE LET data == JsonLoads(line.payload) IN
    IF InError(data) # "none"
         THEN [exc |-> InError(data), found |-> FALSE, value |-> PyNone]
    ELSE IF ~HasEndpoint(data) THEN Skip
    ELSE IF data.t # "dict"
         THEN [exc |-> "TypeError", found |-> FALSE, value |-> PyNone]
    ELSE [exc |-> "none", found |-> TRUE, value |-> Item(data, "endpoint")]

\* (mutant) the check after the loop is left out
EndpointMissing_Never(ep) == FALSE

\* `if not endpoint_url` after the loop
EndpointMissing(ep) == ~Truthy(ep)

\* (mutant) a failed tools/list request is sent once more
RaiseFromFetch_Retry(e, src) ==
    IF pc = "await" /\ posts = 1
    THEN pc' = "post" /\ UNCHANGED <<tools, outcome>>
    ELSE /\ pc' = "idle"
         /\ outcome' = Raised("fetch", e, src)
         /\ UNCHANGED tools

\* (mutant) a failed fetch forgets the list of the fetch before it
RaiseFromFetch_Clears(e, src) ==
    /\ pc' = "idle"
    /\ outcome' = Raised("fetch", e, src)
    /\ tools' = <<>>

\* An exception raised inside extract_tools reaches the caller: no handler
\* catches it and _tools is not assigned
RaiseFromFetch(e, src) ==
    /\ pc' = "idle"
    /\ outcome' = Raised("fetch", e, src)
    /\ UNCHANGED tools

\* After the stream is left: raise ValueError or go on to the tools/list call
AfterStream(ep) ==
    IF EndpointMissing(ep)
    THEN RaiseFromFetch("ValueError", JNothing)
    ELSE pc' = "post" /\ UNCHANGED <<tools, outcome>>

\* `break` at the first event that carries an endpoint
Break(ep) == AfterStream(ep)

\* (mutant) the second request goes to the address of the first
PostUrl_Original == Str(server_url)

\* the URL the tools/list request is posted to
PostUrl ==
    IF UsesSse(server_url) THEN endpoint_url ELSE Str(server_url)

DIdle ==
    /\ name = <<>>
    /\ node_type = <<>>
    /\ class_name = <<>>
    /\ dpc = "off"

TIdle ==
    /\ server_url = <<>>
    /\ tools = <<>>
    /\ pc = "off"
    /\ endpoint_url = PyNone
    /\ linesRead = <<>>
    /\ opens = 0
    /\ posts = 0
    /\ postTarget = PyNone
    /\ outcome = NoOutcome
    /\ file = NoFile

TInit ==
    /\ server_url \in ServerUrls
    /\ tools = <<>>
    /\ pc = "idle"
    /\ endpoint_url = PyNone
    /\ linesRead = <<>>
    /\ opens = 0
    /\ posts = 0
    /\ postTarget = PyNone
    /\ outcome = NoOutcome
    /\ file = NoFile


\* the locals and request counts of the previous call are gone
FreshCall ==
    /\ endpoint_url' = PyNone
    /\ linesRead' = <<>>
    /\ opens' = 0
    /\ posts' = 0
    /\ postTarget' = PyNone

\* extract_tools -> _extract_tools_standalone: select the variant.  The caller
\* fetches any number of times, then saves (cmd_extract); files are loaded
\* at any time (cmd_generate --schema)
ExtractTools ==
    /\ pc = "idle"
    /\ file = NoFile
    /\ FreshCall
    /\ outcome' = NoOutcome
    /\ pc' = IF UsesSse(server_url) THEN "open" ELSE "post"
    /\ UNCHANGED <<server_url, tools, file, dvars, gvars, mvars, rvars, fvars, bvars>>

\* _extract_via_sse: client.stream('GET', server_url) and raise_for_status
SseOpen ==
    /\ pc = "open"
    /\ opens' = opens + 1
    /\ \E resp \in StreamResponses :
          IF resp.kind = "network"
          THEN RaiseFromFetch("httpx.ConnectError", FromResponse(resp))
          ELSE IF ~IsSuccess(resp.status)
          THEN RaiseFromFetch("httpx.HTTPStatusError", FromResponse(resp))
          ELSE pc' = "read" /\ UNCHANGED <<tools, outcome>>
    /\ UNCHANGED <<server_url, endpoint_url, linesRead, posts, postTarget, file, dvars, gvars, mvars, rvars, fvars, bvars>>

\* _extract_via_sse: one iteration of the loop over the stream's lines
SseReadLine ==
    /\ pc = "read"
    /\ Len(linesRead) < MaxLines
    /\ \E line \in Lines :
          LET r == ProcessLine(line) IN
          /\ linesRead' = Append(linesRead, line)
          /\ IF r.exc # "none"
             THEN RaiseFromFetch(r.exc, FromLine(line)) /\ UNCHANGED endpoint_url
             ELSE IF r.found
             THEN endpoint_url' = r.value /\ Break(r.value)
             ELSE UNCHANGED <<pc, endpoint_url, tools, outcome>>
    /\ UNCHANGED <<server_url, opens, posts, postTarget, file, dvars, gvars, mvars, rvars, fvars, bvars>>

\* _extract_via_sse: the server closes the stream, the loop ends
SseStreamEnds ==
    /\ pc = "read"
    /\ AfterStream(endpoint_url)
    /\ UNCHANGED <<server_url, endpoint_url, linesRead, opens, posts, postTarget,
                   file, dvars, gvars, mvars, rvars, fvars, bvars>>

\* _extract_via_sse: the connection breaks while the stream is read
SseReadFails ==
    /\ pc = "read"
    /\ RaiseFromFetch("httpx.ReadError", JNothing)
    /\ UNCHANGED <<server_url, endpoint_url, linesRead, opens, posts, postTarget,
                   file, dvars, gvars, mvars, rvars, fvars, bvars>>

\* client.post(...) of either variant: the tools/list request goes out
PostListTools ==
    /\ pc = "post"
    /\ posts' = posts + 1
    /\ postTarget' = PostUrl
    /\ pc' = "await"
    /\ UNCHANGED <<server_url, tools, endpoint_url, linesRead, opens, outcome,
                   file, dvars, gvars, mvars, rvars, fvars, bvars>>

\* the answer to the tools/list request: raise_for_status, decode, build,
\* assign self._tools, return it
PostResponse ==
    /\ pc = "await"
    /\ \E resp \in PostResponses :
          IF resp.kind = "network"
          THEN RaiseFromFetch("httpx.ConnectError", FromResponse(resp))
          ELSE IF ~IsSuccess(resp.status)
          THEN RaiseFromFetch("httpx.HTTPStatusError", FromResponse(resp))
          ELSE LET r == ParseToolsList(resp.body) IN
               IF r.exc # "none" THEN RaiseFromFetch(r.exc, FromResponse(resp))
               ELSE /\ tools' = r.value
                    /\ outcome' = Returned("fetch", r.value, FromResponse(resp))
                    /\ pc' = "idle"
    /\ UNCHANGED <<server_url, endpoint_url, linesRead, opens, posts, postTarget,
                   file, dvars, gvars, mvars, rvars, fvars, bvars>>

\* save_schemas(path)
SaveSchemas ==
    /\ pc = "idle"
    /\ FreshCall
    /\ file' = SavedDocument(tools)
    /\ outcome' = Returned("save", <<>>, JNothing)
    /\ UNCHANGED <<server_url, tools, pc, dvars, gvars, mvars, rvars, fvars, bvars>>

\* MCPSchemaExtractor.from_json_file(path)
FromJsonFile ==
    /\ pc = "idle"
    /\ FreshCall
    /\ \E content \in OtherFiles \cup {file} :
          LET r == LoadFile(content) IN
          outcome' = IF r.exc = "none"
                     THEN Returned("load", r.value, FromFile(content))
                     ELSE Raised("load", r.exc, FromFile(content))
    /\ UNCHANGED <<server_url, tools, pc, file, dvars, gvars, mvars, rvars, fvars, bvars>>

-----------------------------------------------------------------------------
(* CustomNodeGenerator *)

\* str.replace(a, b) for single characters
ReplaceChar(s, a, b) == [i \in DOMAIN s |-> IF s[i] = a THEN b ELSE s[i]]

IsWhitespace(c) == c \in {" ", "\t"}

\* str.split(): the non-empty words between runs of whitespace
RECURSIVE WordsRec(_, _)
WordsRec(s, cur) ==
    IF s = <<>> THEN (IF cur = <<>> THEN <<>> ELSE <<cur>>)
    ELSE IF IsWhitespace(Head(s))
         THEN (IF cur = <<>> THEN <<>> ELSE <<cur>>) \o WordsRec(Tail(s), <<>>)
         ELSE WordsRec(Tail(s), Append(cur, Head(s)))

\* ' '.join(word.capitalize() for word in words)
RECURSIVE JoinCapitalizedSpaced(_)
JoinCapitalizedSpaced(words) ==
    IF words = <<>> THEN <<>>
    ELSE IF Len(words) = 1 THEN Capitalize(words[1])
    ELSE Capitalize(words[1]) \o <<" ">> \o JoinCapitalizedSpaced(Tail(words))

\* CustomNodeGenerator._format_name
FormatName(n) ==
    JoinCapitalizedSpaced(
        WordsRec(ReplaceChar(ReplaceChar(n, "_", " "), "-", " "), <<>>))

\* CustomNodeGenerator._get_icon: the keywords of icon_map in their order; the
\* icon is named by its keyword, "default" for the fallback glyph
IconKeywords ==
    <<<<"f","i","l","e">>,
      <<"r","e","a","d">>,
      <<"w","r","i","t","e">>,
      <<"s","e","a","r","c","h">>,
      <<"l","i","s","t">>,
      <<"d","e","l","e","t","e">>,
      <<"c","r","e","a","t","e">>,
      <<"e","d","i","t">>,
      <<"g","e","t">>,
      <<"s","e","n","d">>,
      <<"a","p","i">>,
      <<"h","t","t","p">>,
      <<"d","a","t","a","b","a","s","e">>,
      <<"q","u","e","r","y">>,
      <<"e","x","e","c","u","t","e">>,
      <<"r","u","n">>>>

KeywordText(k) == IconKeywords[k]

GetIcon(s) ==
    LET lowered == StrLower(s.name.v)
        hits == {k \in DOMAIN IconKeywords : Contains(lowered, KeywordText(k))}
    IN  IF hits = {} THEN <<"d","e","f","a","u","l","t">>
        ELSE KeywordText(CHOOSE k \in hits : \A j \in hits : k <= j)

\* `schema.description or <fallback>`
DescriptionOr(s, fallback) ==
    IF Truthy(s.description) THEN s.description ELSE Str(fallback)

\* -- CustomNodeGenerator._generate_node_py: the statements it emits


\* the characters of a property name (a key of `properties`)
KeyChars(k) ==
    CASE k = "path" -> <<"p","a","t","h">>
      [] k = "max_n" -> <<"m","a","x","_","n">>
      [] k = "flag" -> <<"f","l","a","g">>
      [] k = "query" -> <<"q","u","e","r","y">>
      [] k = "mode" -> <<"m","o","d","e">>
      [] k = "on" -> <<"o","n">>
      [] k = "count" -> <<"c","o","u","n","t">>
      [] k = "key_n" -> <<"k","e","y","_","n">>
      [] k = "api_key" -> <<"a","p","i","_","k","e","y">>
      [] k = "Secret" -> <<"S","e","c","r","e","t">>
      [] k = "note" -> <<"n","o","t","e">>
      [] k = "ghost" -> <<"g","h","o","s","t">>
      [] k = "mcp_server_url" -> <<"m","c","p","_","s","e","r","v","e","r","_","u","r","l">>
      [] OTHER -> <<k>>

\* schema.properties / schema.required_fields, for an input_schema that is a
\* mapping
Properties(s) == Get(s.input_schema, "properties", Dict(<<>>))
RequiredFields(s) == Get(s.input_schema, "required", List(<<>>))
PropNames(s) == [i \in DOMAIN Properties(s).v |-> KeyChars(Properties(s).v[i][1])]

NoneText == <<"N","o","n","e">>

\* the text after the comma of `self.get_input('<name>', <default>)`
DefaultLiteral(prop) ==
    LET default == Get(prop, "default", Str(<<"'", "'">>)) IN
    IF default.t = "str" THEN <<"'">> \o default.v \o <<"'">>
    ELSE IF default.t = "None" THEN NoneText
    ELSE PyStr(default)

\* `prop_name in required`
IsRequired(s, n) == \E i \in DOMAIN RequiredFields(s).v : RequiredFields(s).v[i] = Str(n)

\* input_lines: one statement `<name> = self.get_input('<name>', <default>)`
\* per property
InputLines(s) ==
    [i \in DOMAIN Properties(s).v |->
        [key |-> Properties(s).v[i][1],
         name |-> PropNames(s)[i],
         default |-> DefaultLiteral(Properties(s).v[i][2])]]

\* validation_lines: one guard `if not <name>: return NodeRunResult(FAILED ...)`
\* per required property, in the order of the properties
RECURSIVE ValidationsFrom(_, _)
ValidationsFrom(s, i) ==
    IF i > Len(PropNames(s)) THEN <<>>
    ELSE (IF IsRequired(s, PropNames(s)[i])
          THEN <<[key |-> Properties(s).v[i][1],
                  name |-> PropNames(s)[i],
                  error |-> FormatName(PropNames(s)[i]) \o <<" is required">>]>>
          ELSE <<>>)
         \o ValidationsFrom(s, i + 1)

\* the text of backend/node.py: what the template is filled with.  The
\* server_url argument appears nowhere in it.
NodePy(s, url) ==
    [title |-> FormatName(s.name.v),
     description |-> DescriptionOr(s, <<>>),
     node_type |-> s.node_type.v,
     class_name |-> s.class_name.v,
     tool_name |-> s.name.v,
     input_lines |-> InputLines(s),
     validations |-> ValidationsFrom(s, 1),
     params |-> PropNames(s)]

\* What Python accepts: a name, and one literal (None, digits, or a
\* single-quoted string without a quote inside)
IsPyIdentifier(n) ==
    /\ n # <<>>
    /\ n[1] \in Range(LowerLetters) \cup Range(UpperLetters) \cup {"_"}
    /\ \A i \in DOMAIN n :
          n[i] \in Range(LowerLetters) \cup Range(UpperLetters) \cup Digits \cup {"_"}

IsPyLiteral(text) ==
    \/ text = NoneText
    \/ text # <<>> /\ \A i \in DOMAIN text : text[i] \in Digits
    \/ /\ Len(text) >= 2
       /\ text[1] = "'" /\ text[Len(text)] = "'"
       /\ \A i \in 2..(Len(text) - 1) : text[i] \notin {"'", "\\", "\n"}

\* whether the module compiles
ValidModule(code) ==
    /\ IsPyIdentifier(code.class_name)
    /\ \A i \in DOMAIN code.input_lines :
          /\ IsPyIdentifier(code.input_lines[i].name)
          /\ IsPyLiteral(code.input_lines[i].default)

\* the value of a literal
EvalLiteral(text) ==
    IF text = NoneText THEN PyNone
    ELSE IF text[1] = "'" THEN Str(SubSeq(text, 2, Len(text) - 1))
    ELSE PyInt(CHOOSE n \in 0..9 : DigitChars[n + 1] = text[1])

\* (mutant) the frontend is written before the backend
BundleFiles_FrontendFirst ==
    <<"manifest.json",
      "frontend/index.ts", "frontend/types.ts", "frontend/node.tsx",
      "frontend/panel.tsx", "frontend/use-config.ts", "frontend/default.ts",
      "backend/__init__.py", "backend/node.py">>

\* The files of a bundle, in the order generate writes them
BundleFiles ==
    <<"manifest.json", "backend/__init__.py", "backend/node.py",
      "frontend/index.ts", "frontend/types.ts", "frontend/node.tsx",
      "frontend/panel.tsx", "frontend/use-config.ts", "frontend/default.ts">>

\* The text of one generated file, as the values its template is filled with.
\* server_url is handed to _generate_node_py, whose template does not use it.
FileData(f, s, url) ==
    LET title == Str(FormatName(s.name.v))
        icon == Str(GetIcon(s))
    IN
    CASE f = "manifest.json" ->
            <<[file |-> f,
               params |-> <<s.node_type, title,
                            DescriptionOr(s, <<"M","C","P"," ","t","o","o","l",":"," ">>
                                             \o s.name.v),
                            icon, s.input_schema>>]>>
      [] f = "backend/__init__.py" -> <<>>
      [] f = "backend/node.py" ->
            <<[file |-> f,
               params |-> <<NodePy(s, url)>>]>>
      [] f = "frontend/index.ts" ->
            <<[file |-> f, params |-> <<title, s.class_name, s.node_type>>]>>
      [] f = "frontend/types.ts" ->
            <<[file |-> f,
               params |-> <<title, s.class_name, s.node_type, s.input_schema>>]>>
      [] f = "frontend/node.tsx" ->
            <<[file |-> f,
               params |-> <<title, s.class_name, icon, s.input_schema>>]>>
      [] f = "frontend/panel.tsx" ->
            <<[file |-> f,
               params |-> <<title, s.class_name, icon, s.input_schema>>]>>
      [] f = "frontend/use-config.ts" ->
            <<[file |-> f, params |-> <<title, s.class_name>>]>>
      [] f = "frontend/default.ts" ->
            <<[file |-> f,
               params |-> <<title, DescriptionOr(s, <<"M","C","P"," ","T","o","o","l">>),
                            s.node_type, s.class_name, s.input_schema>>]>>

\* A path under output_dir: <<directory, file>>
NodePath(s, f) == <<s.node_type.v, f>>

NoFileAt == [exists |-> FALSE, data |-> <<>>]
FileWith(data) == [exists |-> TRUE, data |-> data]

\* (mutant) a file that is there already is left as it is
WriteFile_KeepExisting(files, p, data) ==
    IF files[p].exists THEN files ELSE [files EXCEPT ![p] = FileWith(data)]

\* (mutant) every write also lands in a file outside the node directory
WriteFile_AlsoOutside(files, p, data) ==
    [files EXCEPT ![p] = FileWith(data), ![<<<<"o">>, "keep.txt">>] = FileWith(data)]

\* (mutant) the file is opened for appending
WriteFile_Append(files, p, data) ==
    [files EXCEPT ![p] = FileWith(files[p].data \o data)]

\* with open(path, 'w') as f: f.write(data)
WriteFile(files, p, data) == [files EXCEPT ![p] = FileWith(data)]

\* open(path, 'w') or f.write raising OSError: the file is untouched when it
\* could not be opened, empty when it was opened and the write failed
FailedWrite(files, p, opened) ==
    IF opened THEN [files EXCEPT ![p] = FileWith(<<>>)] ELSE files

\* the exception a failed write raises out of generate
GenRaised == [t |-> "raise", exc |-> "OSError"]

\* The schemas handed to the generator, built as fetch builds them
RawListDirectory ==
    JObj(<< <<"name", JStr(list_directory)>>,
            <<"description", JStr(<<>>)>>,
            <<"inputSchema", SchemaPath>> >>)

GenSchemas ==
    {SchemaFromTool(JsonLoads(r)) : r \in {RawFull, RawNameOnly, RawListDirectory}}

GenUrls == {<<>>, UrlMcp}

\* the text generate produces for each file of the bundle, per argument pair
GeneratedText ==
    [a \in GenSchemas \X GenUrls |->
        [i \in DOMAIN BundleFiles |-> FileData(BundleFiles[i], a[1], a[2])]]

\* the first k writes of generate: _generate_manifest, _generate_backend,
\* _generate_frontend
RECURSIVE WriteFirst(_, _, _, _)
WriteFirst(files, s, url, k) ==
    IF k = 0 THEN files
    ELSE WriteFile(WriteFirst(files, s, url, k - 1),
                   NodePath(s, BundleFiles[k]),
                   GeneratedText[<<s, url>>][k])

GenDirs == {s.node_type.v : s \in GenSchemas}
OutsidePath == <<<<"o">>, "keep.txt">>
StaleData == <<[file |-> "stale", params |-> <<>>]>>

\* a file of a node directory that is no file of the bundle
ExtraFile == "README.md"

AllPaths == {<<d, BundleFiles[i]>> : d \in GenDirs, i \in DOMAIN BundleFiles}
            \cup {<<d, ExtraFile>> : d \in GenDirs}
            \cup {OutsidePath}

\* What output_dir may hold before the first generate: nothing, an older
\* version of every file, or some files of an older bundle
InitialFs ==
    {[p \in AllPaths |-> NoFileAt],
     [p \in AllPaths |-> FileWith(StaleData)],
     [p \in AllPaths |->
        IF p[2] \in {"manifest.json", "backend/node.py", "keep.txt"}
        THEN FileWith(StaleData) ELSE NoFileAt]}

NoArgs == [schema |-> PyNone, url |-> <<>>]

GIdle ==
    /\ fs = <<>>
    /\ genArgs = NoArgs
    /\ genResult = PyNone
    /\ gpc = "off"
    /\ prevArgs = NoArgs
    /\ fsBefore = <<>>
    /\ prevResult = PyNone
    /\ failedAt = 0
    /\ writeFailed = FALSE

GInit ==
    /\ fs \in InitialFs
    /\ genArgs = NoArgs
    /\ genResult = PyNone
    /\ gpc = "idle"
    /\ prevArgs = NoArgs
    /\ fsBefore = fs
    /\ prevResult = PyNone
    /\ failedAt = 0
    /\ writeFailed = FALSE

\* CustomNodeGenerator.generate(schema, server_url)
Generate ==
    /\ gpc = "idle"
    /\ \E s \in GenSchemas, url \in GenUrls :
          /\ fs' = WriteFirst(fs, s, url, Len(BundleFiles))
          /\ genArgs' = [schema |-> s, url |-> url]
          /\ genResult' = s.node_type
    /\ prevArgs' = genArgs
    /\ fsBefore' = fs
    /\ prevResult' = genResult
    /\ failedAt' = 0
    /\ UNCHANGED <<gpc, writeFailed, dvars, tvars, mvars, rvars, fvars, bvars>>

\* CustomNodeGenerator.generate(schema, server_url) when the k-th write fails:
\* the writes before it are done, the exception leaves generate, the writes
\* after it are never reached
GenerateFails ==
    /\ gpc = "idle"
    /\ ~writeFailed
    /\ \E s \in GenSchemas, url \in GenUrls, k \in DOMAIN BundleFiles,
          opened \in BOOLEAN :
          /\ fs' = FailedWrite(WriteFirst(fs, s, url, k - 1),
                               NodePath(s, BundleFiles[k]), opened)
          /\ genArgs' = [schema |-> s, url |-> url]
          /\ failedAt' = k
    /\ genResult' = GenRaised
    /\ prevArgs' = genArgs
    /\ fsBefore' = fs
    /\ prevResult' = genResult
    /\ writeFailed' = TRUE
    /\ UNCHANGED <<gpc, dvars, tvars, mvars, rvars, fvars, bvars>>

-----------------------------------------------------------------------------
(* MCPToolSchema.get_typescript_type / get_python_type *)

TagString == <<"s","t","r","i","n","g">>
TagNumber == <<"n","u","m","b","e","r">>
TagInteger == <<"i","n","t","e","g","e","r">>
TagBoolean == <<"b","o","o","l","e","a","n">>
TagArray == <<"a","r","r","a","y">>
TagObject == <<"o","b","j","e","c","t">>

\* a method that returns a text
Gives(v) == [exc |-> "none", value |-> v]

\* ' | '.join(f"'{v}'" for v in values)
RECURSIVE JoinQuoted(_)
JoinQuoted(values) ==
    IF values = <<>> THEN <<>>
    ELSE <<"'">> \o PyStr(values[1]) \o <<"'">>
         \o (IF Len(values) = 1 THEN <<>>
             ELSE <<" ","|"," ">> \o JoinQuoted(Tail(values)))

\* (mutant) a tag outside the vocabulary is an error
UnknownTag_Raises(fallback) == Fails("ValueError")

\* the final `else` of both methods
UnknownTag(fallback) == Gives(fallback)

\* MCPToolSchema.get_typescript_type
RECURSIVE GetTypescriptType(_)
GetTypescriptType(p) ==
    IF p.t # "dict" THEN Fails("AttributeError")
    ELSE
    LET json_type == Get(p, "type", Str(<<"a","n","y">>)) IN
    CASE json_type = Str(TagString) ->
            IF Has(p, "enum")
            THEN IF IterError(Item(p, "enum")) # "none" THEN Fails("TypeError")
                 ELSE Gives(JoinQuoted(IterItems(Item(p, "enum"))))
            ELSE Gives(TagString)
      [] json_type \in {Str(TagNumber), Str(TagInteger)} -> Gives(TagNumber)
      [] json_type = Str(TagBoolean) -> Gives(TagBoolean)
      [] json_type = Str(TagArray) ->
            LET r == GetTypescriptType(Get(p, "items", Dict(<<>>))) IN
            IF r.exc # "none" THEN r ELSE Gives(r.value \o <<"[","]">>)
      [] json_type = Str(TagObject) ->
            Gives(<<"R","e","c","o","r","d","<","s","t","r","i","n","g",",",
                    " ","a","n","y",">">>)
      [] OTHER -> UnknownTag(<<"a","n","y">>)

\* MCPToolSchema.get_python_type
RECURSIVE GetPythonType(_)
GetPythonType(p) ==
    IF p.t # "dict" THEN Fails("AttributeError")
    ELSE
    LET json_type == Get(p, "type", Str(<<"A","n","y">>)) IN
    CASE json_type = Str(TagString) -> Gives(<<"s","t","r">>)
      [] json_type = Str(TagNumber) -> Gives(<<"f","l","o","a","t">>)
      [] json_type = Str(TagInteger) -> Gives(<<"i","n","t">>)
      [] json_type = Str(TagBoolean) -> Gives(<<"b","o","o","l">>)
      [] json_type = Str(TagArray) ->
            LET r == GetPythonType(Get(p, "items", Dict(<<>>))) IN
            IF r.exc # "none" THEN r
            ELSE Gives(<<"l","i","s","t","[">> \o r.value \o <<"]">>)
      [] json_type = Str(TagObject) ->
            Gives(<<"d","i","c","t","[","s","t","r",","," ","A","n","y","]">>)
      [] OTHER -> UnknownTag(<<"A","n","y">>)

\* Parameter schemas: every tag of the vocabulary, tags outside it (a string,
\* a number, null), no tag, enumerations, arrays nested up to MaxDepth, and
\* values that are no schema where a schema is expected
MaxDepth == 2

Tagged(tag) == Dict(<< <<"type", tag>> >>)
EnumAB == List(<<Str(<<"a">>), Str(<<"b">>)>>)

ScalarSchemas ==
    {Tagged(Str(t)) : t \in {TagString, TagNumber, TagInteger, TagBoolean, TagObject}}
    \cup {Tagged(Str(<<"x">>)), Tagged(PyInt(5)), Tagged(PyNone), Dict(<<>>)}
    \cup {Dict(<< <<"type", Str(TagString)>>, <<"enum", EnumAB>> >>),
          Dict(<< <<"type", Str(TagNumber)>>, <<"enum", EnumAB>> >>),
          Dict(<< <<"enum", EnumAB>> >>)}

MalformedSchemas ==
    {Str(<<"s">>),
     Dict(<< <<"type", Str(TagString)>>, <<"enum", PyNone>> >>),
     Dict(<< <<"type", Str(TagArray)>>, <<"items", PyNone>> >>)}

RECURSIVE SchemasOfDepth(_)
SchemasOfDepth(d) ==
    ScalarSchemas \cup {Tagged(Str(TagArray))}
    \cup (IF d = 0 THEN {}
          ELSE {Dict(<< <<"type", Str(TagArray)>>, <<"items", i>> >>) :
                   i \in SchemasOfDepth(d - 1) \cup MalformedSchemas})

PropSchemas == SchemasOfDepth(MaxDepth) \cup MalformedSchemas

NoProp == [t |-> "absent"]
NotCalled == [exc |-> "not called", value |-> <<>>]

MIdle ==
    /\ prop_schema = NoProp
    /\ ts_type = NotCalled
    /\ py_type = NotCalled

MInit ==
    /\ prop_schema \in PropSchemas
    /\ ts_type = NotCalled
    /\ py_type = NotCalled

\* schema.get_typescript_type(prop_schema)
CallGetTypescriptType ==
    /\ prop_schema # NoProp
    /\ ts_type = NotCalled
    /\ ts_type' = GetTypescriptType(prop_schema)
    /\ UNCHANGED <<prop_schema, py_type, dvars, tvars, gvars, rvars, fvars, bvars>>

\* schema.get_python_type(prop_schema)
CallGetPythonType ==
    /\ prop_schema # NoProp
    /\ py_type = NotCalled
    /\ py_type' = GetPythonType(prop_schema)
    /\ UNCHANGED <<prop_schema, ts_type, dvars, tvars, gvars, rvars, fvars, bvars>>

-----------------------------------------------------------------------------
(* One run of the generated node: _run of backend/node.py *)

\* NodeRunResult(status, inputs, outputs, error)
NodeRunResult(status, inputs, outputs, error) ==
    [status |-> status, inputs |-> inputs, outputs |-> outputs, error |-> error]
NoResult == NodeRunResult("none", Dict(<<>>), Dict(<<>>), <<>>)
\* the module does not compile: the host gets no node and no result
LoadError == NodeRunResult("SyntaxError", Dict(<<>>), Dict(<<>>), <<>>)

\* BaseCustomNode.get_input
GetInput(data, key, default) == Get(data, key, default)

\* the locals after the input statements, as the entries of tool_params
ExtractInputs(code, data) ==
    [i \in DOMAIN code.input_lines |->
        <<code.input_lines[i].key,
          GetInput(data, code.input_lines[i].key,
                   EvalLiteral(code.input_lines[i].default))>>]

\* the guards `if not <name>` that fire; the first in the text returns
FiringGuards(code, entries) ==
    {i \in DOMAIN code.validations :
        ~Truthy(Item(Dict(entries), code.validations[i].key))}

\* _extract_text(result)
TextParts(content) ==
    LET items == IterItems(content)
        texts == {i \in DOMAIN items :
                     /\ items[i].t = "dict"
                     /\ Get(items[i], "type", PyNone) = Str(<<"t","e","x","t">>)}
    IN  [i \in DOMAIN items |->
            IF i \in texts THEN <<Get(items[i], "text", Str(<<>>))>> ELSE <<>>]

RECURSIVE Flatten(_)
Flatten(ss) == IF ss = <<>> THEN <<>> ELSE Head(ss) \o Flatten(Tail(ss))

\* '\n'.join(parts)
RECURSIVE JoinLines(_)
JoinLines(parts) ==
    IF parts = <<>> THEN <<>>
    ELSE IF Len(parts) = 1 THEN parts[1].v
    ELSE parts[1].v \o <<"\n">> \o JoinLines(Tail(parts))

ExtractText(result) ==
    IF result.t # "dict" THEN Fails("AttributeError")
    ELSE LET content == Get(result, "content", List(<<>>)) IN
         IF IterError(content) # "none" THEN Fails("TypeError")
         ELSE LET parts == Flatten(TextParts(content)) IN
              IF \E i \in DOMAIN parts : parts[i].t # "str" THEN Fails("TypeError")
              ELSE Gives(JoinLines(parts))

InvocationFailed == <<"MCP tool invocation failed: ">>

\* `except Exception as e`
OnException(params, message) ==
    NodeRunResult("FAILED", params, Dict(<<>>), InvocationFailed \o message)

\* (mutant) a flagged result is reported as a success
OnToolError_Succeeds(params, text, result) ==
    NodeRunResult("SUCCEEDED", params,
                  Dict(<< <<"text", Str(text)>>, <<"result", result>>,
                          <<"is_error", PyBool(FALSE)>> >>), <<>>)

\* `if is_error`
OnToolError(params, text, result) ==
    NodeRunResult("FAILED", params,
                  Dict(<< <<"text", Str(text)>>, <<"result", result>>,
                          <<"is_error", PyBool(TRUE)>> >>),
                  IF text # <<>> THEN text ELSE <<"Tool returned an error">>)

\* the body of `try` after the invocation returned
ProcessResult(params, result) ==
    LET t == ExtractText(result) IN
    IF t.exc # "none" THEN OnException(params, <<t.exc>>)
    ELSE IF Truthy(Get(result, "isError", PyBool(FALSE)))
         THEN OnToolError(params, t.value, result)
         ELSE NodeRunResult("SUCCEEDED", params,
                            Dict(<< <<"text", Str(t.value)>>, <<"result", result>>,
                                    <<"is_error", PyBool(FALSE)>> >>), <<>>)

\* Schemas whose nodes are run: no parameter; the required `path` without a
\* default; three parameters with declared defaults, two of them required
SchemaNoParams ==
    NewSchema(Str(<<"p","i","n","g">>), PyNone, Dict(<<>>), PyNone, PyNone)

SchemaListDirectory ==
    NewSchema(Str(list_directory), Str(<<"d">>),
              Dict(<< <<"properties",
                        Dict(<< <<"path", Tagged(Str(TagString))>> >>)>>,
                      <<"required", List(<<Str(<<"p","a","t","h">>)>>)>> >>),
              PyNone, PyNone)

SchemaDefaults ==
    NewSchema(Str(<<"a","_","B">>), PyNone,
              Dict(<< <<"properties",
                        Dict(<< <<"path", Dict(<< <<"type", Str(TagString)>>,
                                                  <<"default", Str(<<"x">>)>> >>)>>,
                                <<"max_n", Dict(<< <<"type", Str(TagInteger)>>,
                                                   <<"default", PyInt(0)>> >>)>>,
                                <<"flag", Dict(<< <<"default", PyNone>> >>)>> >>)>>,
                      <<"required", List(<<Str(<<"p","a","t","h">>),
                                           Str(<<"m","a","x","_","n">>)>>)>> >>),
              PyNone, PyNone)

RunSchemas == {SchemaNoParams, SchemaListDirectory, SchemaDefaults}

Programs ==
    {[args |-> [schema |-> s, url |-> u], code |-> NodePy(s, u)] :
        s \in RunSchemas, u \in GenUrls}
NoProgram == [args |-> NoArgs, code |-> <<>>]

\* The inputs a host may configure: each of mcp_server_url, path, max_n is
\* absent or has one of the values
Absent == [t |-> "absent"]
Entry(k, v) == IF v = Absent THEN <<>> ELSE << <<k, v>> >>
NodeInputs ==
    {Dict(Entry("mcp_server_url", u) \o Entry("path", pth) \o Entry("max_n", n)) :
        u \in {Absent, Str(<<>>), Str(UrlMcp), Str(Session1)},
        pth \in {Absent, Str(<<>>), Str(<<"v">>)},
        n \in {Absent, PyInt(0), PyInt(3)}}

\* What _invoke_mcp_tool may return, and the messages of what it may raise
TextItem(t) == Dict(<< <<"type", Str(<<"t","e","x","t">>)>>, <<"text", t>> >>)
ToolResults ==
    {Dict(<< <<"content", List(<<TextItem(Str(<<"o","k">>))>>)>>,
             <<"isError", PyBool(FALSE)>> >>),
     Dict(<< <<"content", List(<<TextItem(Str(<<"n","o">>))>>)>>,
             <<"isError", PyBool(TRUE)>> >>),
     Dict(<< <<"content", List(<<>>)>>, <<"isError", PyBool(TRUE)>> >>),
     Dict(<< <<"content", List(<<TextItem(Str(<<"a">>)), TextItem(Str(<<"b">>))>>)>> >>),
     Dict(<<>>),
     Dict(<< <<"content", PyNone>> >>),
     Dict(<< <<"content", List(<<TextItem(PyNone)>>)>>,
             <<"isError", PyBool(TRUE)>> >>),
     List(<<>>)}
InvokeErrors == {<<"ConnectError">>, <<"HTTPStatusError">>}

\* how an invocation ended
Pending == [kind |-> "pending", result |-> PyNone, message |-> <<>>]
ToolReturned(result) == [kind |-> "return", result |-> result, message |-> <<>>]
ToolRaised(message) == [kind |-> "raise", result |-> PyNone, message |-> message]

RIdle ==
    /\ program = NoProgram
    /\ node_data = Dict(<<>>)
    /\ rpc = "off"
    /\ tool_params = PyNone
    /\ invocations = <<>>
    /\ run_result = NoResult

RInit ==
    /\ program \in Programs
    /\ node_data = Dict(<<>>)
    /\ rpc = "idle"
    /\ tool_params = PyNone
    /\ invocations = <<>>
    /\ run_result = NoResult

\* the run ends before the invocation
EndRun(result) ==
    /\ run_result' = result
    /\ rpc' = "done"
    /\ UNCHANGED <<tool_params, invocations>>

\* the host loads node.py and calls _run: up to the tool invocation
RunStart ==
    /\ rpc = "idle"
    /\ \E data \in NodeInputs :
          /\ node_data' = data
          /\ IF ~ValidModule(program.code) THEN EndRun(LoadError)
             ELSE
             LET mcp_server_url == GetInput(data, "mcp_server_url", Str(<<>>))
                 entries == ExtractInputs(program.code, data)
                 firing == FiringGuards(program.code, entries)
             IN
             IF ~Truthy(mcp_server_url)
             THEN EndRun(NodeRunResult("FAILED", Dict(<<>>), Dict(<<>>),
                                       <<"MCP Server URL is required">>))
             ELSE IF firing # {}
             THEN EndRun(NodeRunResult(
                      "FAILED", Dict(entries), Dict(<<>>),
                      program.code.validations[
                          CHOOSE i \in firing : \A j \in firing : i <= j].error))
             ELSE /\ tool_params' = Dict(entries)
                  /\ invocations' = <<[url |-> mcp_server_url,
                                       tool |-> program.code.tool_name,
                                       params |-> Dict(entries),
                                       outcome |-> Pending]>>
                  /\ rpc' = "await"
                  /\ UNCHANGED run_result
    /\ UNCHANGED <<program, dvars, tvars, gvars, mvars, fvars, bvars>>

\* _invoke_mcp_tool returns: the rest of the `try` block
InvokeReturns ==
    /\ rpc = "await"
    /\ \E result \in ToolResults :
          /\ run_result' = ProcessResult(tool_params, result)
          /\ invocations' = <<[invocations[1] EXCEPT !.outcome = ToolReturned(result)]>>
    /\ rpc' = "done"
    /\ UNCHANGED <<program, node_data, tool_params, dvars, tvars, gvars, mvars, fvars, bvars>>

\* _invoke_mcp_tool raises: the `except Exception` block
InvokeRaises ==
    /\ rpc = "await"
    /\ \E message \in InvokeErrors :
          /\ run_result' = OnException(tool_params, message)
          /\ invocations' = <<[invocations[1] EXCEPT !.outcome = ToolRaised(message)]>>
    /\ rpc' = "done"
    /\ UNCHANGED <<program, node_data, tool_params, dvars, tvars, gvars, mvars, fvars, bvars>>

-----------------------------------------------------------------------------
(* The manifest inputs and the frontend of a bundle:                        *)
(* _generate_input_schema, _generate_panel_tsx, _generate_default_ts and    *)
(* the checkValid routine of the generated default.ts                       *)

\* d[k] = v
DictSet(d, k, v) ==
    IF Has(d, k)
    THEN Dict([i \in DOMAIN d.v |-> IF d.v[i][1] = k THEN <<k, v>> ELSE d.v[i]])
    ELSE Dict(Append(d.v, <<k, v>>))

\* the entry `inputs` starts with
ServerUrlInput ==
    Dict(<< <<"type", Str(TagString)>>,
            <<"title", Str(<<"MCP Server URL">>)>>,
            <<"description", Str(<<"MCP server endpoint (SSE or HTTP)">>)>>,
            <<"required", PyBool(TRUE)>> >>)

\* input_def of the i-th property
InputDef(s, i) ==
    LET k == Properties(s).v[i][1]
        prop == Properties(s).v[i][2]
        Copy(key) == IF Has(prop, key) THEN << <<key, Item(prop, key)>> >> ELSE <<>>
    IN  Dict(<< <<"type", Get(prop, "type", Str(TagString))>>,
                <<"title", Str(FormatName(KeyChars(k)))>> >>
             \o Copy("description")
             \o (IF IsRequired(s, KeyChars(k))
                 THEN << <<"required", PyBool(TRUE)>> >> ELSE <<>>)
             \o Copy("default")
             \o Copy("enum"))

\* `inputs` after the first n rounds of the loop
RECURSIVE InputsUpTo(_, _)
InputsUpTo(s, n) ==
    IF n = 0 THEN Dict(<< <<"mcp_server_url", ServerUrlInput>> >>)
    ELSE DictSet(InputsUpTo(s, n - 1), Properties(s).v[n][1], InputDef(s, n))

\* CustomNodeGenerator._generate_input_schema
GenerateInputSchema(s) == InputsUpTo(s, Len(Properties(s).v))

\* is_password
SensitiveWords ==
    {<<"p","a","s","s","w","o","r","d">>, <<"k","e","y">>, <<"s","e","c","r","e","t">>}
IsPassword(n) == \E w \in SensitiveWords : Contains(StrLower(n), w)

\* One <Field> block: its control, the input type attribute, the options of a
\* select and the handler given as onChange
FormField(control, n, title, required, input_type, options, on_change) ==
    [control |-> control, name |-> n, title |-> title, required |-> required,
     input_type |-> input_type, options |-> options, on_change |-> on_change]

ServerUrlField ==
    FormField("Input", <<"m","c","p","_","s","e","r","v","e","r","_","u","r","l">>,
              <<"MCP Server URL">>, TRUE, "", <<>>, "value")

\* (mutant) the type is looked at before the enumeration
PanelField_TypeFirst(s, i) ==
    LET n == KeyChars(Properties(s).v[i][1])
        prop == Properties(s).v[i][2]
        title == FormatName(n)
        is_required == IsRequired(s, n)
        prop_type == Get(prop, "type", Str(TagString))
    IN  IF prop_type = Str(TagBoolean)
        THEN FormField("Switch", n, title, FALSE, "", <<>>, "checked")
        ELSE IF prop_type \in {Str(TagNumber), Str(TagInteger)}
        THEN FormField("Input", n, title, is_required, "number", <<>>, "number")
        ELSE IF Has(prop, "enum")
        THEN FormField("Select", n, title, is_required, "", Item(prop, "enum").v, "value")
        ELSE FormField("Input", n, title, is_required,
                       IF IsPassword(n) THEN "password" ELSE "", <<>>, "value")

\* the block of the i-th property
PanelField(s, i) ==
    LET n == KeyChars(Properties(s).v[i][1])
        prop == Properties(s).v[i][2]
        title == FormatName(n)
        is_required == IsRequired(s, n)
        prop_type == Get(prop, "type", Str(TagString))
    IN  IF Has(prop, "enum")
        THEN FormField("Select", n, title, is_required, "", Item(prop, "enum").v, "value")
        ELSE IF prop_type = Str(TagBoolean)
        THEN FormField("Switch", n, title, FALSE, "", <<>>, "checked")
        ELSE IF prop_type \in {Str(TagNumber), Str(TagInteger)}
        THEN FormField("Input", n, title, is_required, "number", <<>>, "number")
        ELSE FormField("Input", n, title, is_required,
                       IF IsPassword(n) THEN "password" ELSE "", <<>>, "value")

\* prop_schema["enum"][0], evaluated for every property with an enum
FirstOptionMissing(s, i) ==
    LET prop == Properties(s).v[i][2] IN
    Has(prop, "enum") /\ Item(prop, "enum").v = <<>>

\* CustomNodeGenerator._generate_panel_tsx: field_components
GeneratePanelTsx(s) ==
    IF \E i \in DOMAIN Properties(s).v : FirstOptionMissing(s, i)
    THEN Fails("IndexError")
    ELSE Gives(<<ServerUrlField>> \o [i \in DOMAIN Properties(s).v |-> PanelField(s, i)])

\* what the onChange handler of a block stores for the text typed
OnChange(field, v) ==
    IF field.on_change = "number"
    THEN (IF v = <<>> THEN [t |-> "absent"]
          ELSE PyInt(CHOOSE n \in 0..9 : DigitChars[n + 1] = v[1]))
    ELSE Str(v)

\* the line of defaultValue for one property
DefaultValueText(prop) ==
    LET default == Get(prop, "default", PyNone) IN
    IF default.t # "None"
    THEN (IF default.t = "str" THEN <<"'">> \o default.v \o <<"'">>
          ELSE IF default.t = "bool"
               THEN (IF default.v THEN <<"t","r","u","e">> ELSE <<"f","a","l","s","e">>)
          ELSE PyStr(default))
    ELSE IF Get(prop, "type", PyNone) = Str(TagBoolean) THEN <<"f","a","l","s","e">>
    ELSE <<"'", "'">>

\* One emptiness check of checkValid: the payload field, the translation key
\* and the message used when there is no translation
ValidCheck(field, key, fallback, trims_always) ==
    [field |-> field, key |-> key, fallback |-> fallback, trims_always |-> trims_always]

ServerUrlCheck ==
    ValidCheck(<<"m","c","p","_","s","e","r","v","e","r","_","u","r","l">>,
               <<"workflow.nodes.mcp.serverUrlRequired">>,
               <<"MCP Server URL is required">>, TRUE)

\* validations: the server URL first, then `for prop_name in required`
RequiredChecks(s) ==
    [i \in DOMAIN RequiredFields(s).v |->
        ValidCheck(RequiredFields(s).v[i].v,
                   <<"workflow.nodes.">> \o s.node_type.v \o <<".">>
                       \o RequiredFields(s).v[i].v \o <<"Required">>,
                   FormatName(RequiredFields(s).v[i].v) \o <<" is required">>,
                   FALSE)]

\* CustomNodeGenerator._generate_default_ts: defaults and validations
GenerateDefaultTs(s) ==
    [defaults |-> [i \in DOMAIN Properties(s).v |->
                      [name |-> KeyChars(Properties(s).v[i][1]),
                       value |-> DefaultValueText(Properties(s).v[i][2])]],
     checks |-> <<ServerUrlCheck>> \o RequiredChecks(s)]

\* the property names the model uses, and the key of a name
KnownKeys ==
    {"mcp_server_url", "path", "max_n", "flag", "query", "mode", "on", "count",
     "key_n", "api_key", "Secret", "note", "ghost"}
KeyOf(n) == CHOOSE k \in KnownKeys : KeyChars(k) = n

\* payload.<field> of a payload given as a mapping
PayloadField(p, n) == Get(p, KeyOf(n), [t |-> "absent"])

\* !x
JsFalsy(x) ==
    CASE x.t = "absent" -> TRUE
      [] x.t = "None" -> TRUE
      [] x.t = "str" -> x.v = <<>>
      [] x.t = "int" -> x.v = 0
      [] x.t = "bool" -> ~x.v
      [] OTHER -> FALSE

\* x.trim() === ''
TrimsToEmpty(x) == x.t = "str" /\ \A i \in DOMAIN x.v : IsWhitespace(x.v[i])

\* the condition of one emitted `if`
CheckFires(check, p) ==
    LET x == PayloadField(p, check.field) IN
    JsFalsy(x) \/ TrimsToEmpty(x)

\* t?.(key) || fallback, for t undefined, t returning '' and t returning a text
ErrorMessage(check, translator) ==
    IF translator = "text" THEN <<"t(">> \o check.key \o <<")">>
    ELSE check.fallback

\* (mutant) the last failing check decides the message
RunCheckValid_LastFailing(checks, p, translator) ==
    LET firing == {i \in DOMAIN checks : CheckFires(checks[i], p)} IN
    IF firing = {} THEN [isValid |-> TRUE, errorMessage |-> <<>>]
    ELSE [isValid |-> FALSE,
          errorMessage |->
              ErrorMessage(checks[CHOOSE i \in firing : \A j \in firing : i >= j],
                           translator)]

\* checkValid(payload, t) of the generated default.ts
RunCheckValid(checks, p, translator) ==
    LET firing == {i \in DOMAIN checks : CheckFires(checks[i], p)} IN
    IF firing = {} THEN [isValid |-> TRUE, errorMessage |-> <<>>]
    ELSE [isValid |-> FALSE,
          errorMessage |->
              ErrorMessage(checks[CHOOSE i \in firing : \A j \in firing : i <= j],
                           translator)]

\* The schemas the frontend is generated for
SchemaSearch ==
    NewSchema(Str(<<"s","e","a","r","c","h">>), Str(<<"d">>),
              Dict(<< <<"properties",
                        Dict(<< <<"query", Dict(<< <<"type", Str(TagString)>>,
                                                   <<"description", Str(<<"q">>)>> >>)>> >>)>>,
                      <<"required", List(<<Str(<<"q","u","e","r","y">>)>>)>> >>),
              PyNone, PyNone)

SchemaControls ==
    NewSchema(Str(<<"c","t","l">>), PyNone,
              Dict(<< <<"properties",
                        Dict(<< <<"mode", Dict(<< <<"type", Str(TagString)>>,
                                                  <<"enum", EnumAB>>,
                                                  <<"default", Str(<<"b">>)>> >>)>>,
                                <<"on", Dict(<< <<"type", Str(TagBoolean)>>,
                                                <<"enum", EnumAB>> >>)>>,
                                <<"flag", Tagged(Str(TagBoolean))>>,
                                <<"count", Tagged(Str(TagNumber))>>,
                                <<"key_n", Tagged(Str(TagInteger))>>,
                                <<"api_key", Tagged(Str(TagString))>>,
                                <<"Secret", Dict(<<>>)>>,
                                <<"note", Tagged(Str(TagString))>> >>)>>,
                      <<"required", List(<<Str(<<"a","p","i","_","k","e","y">>),
                                           Str(<<"m","o","d","e">>)>>)>> >>),
              PyNone, PyNone)

\* a parameter named like the synthetic input
SchemaCollision ==
    NewSchema(Str(<<"c","o","l">>), PyNone,
              Dict(<< <<"properties",
                        Dict(<< <<"mcp_server_url",
                                  Dict(<< <<"type", Str(TagString)>>,
                                          <<"description", Str(<<"d">>)>> >>)>> >>)>> >>),
              PyNone, PyNone)

\* `required` in another order than `properties`
SchemaReordered ==
    NewSchema(Str(<<"r","e","o">>), PyNone,
              Dict(<< <<"properties",
                        Dict(<< <<"path", Tagged(Str(TagString))>>,
                                <<"query", Tagged(Str(TagString))>> >>)>>,
                      <<"required", List(<<Str(<<"q","u","e","r","y">>),
                                           Str(<<"p","a","t","h">>)>>)>> >>),
              PyNone, PyNone)

\* `required` names a parameter that `properties` does not describe
SchemaGhost ==
    NewSchema(Str(<<"g","h","o">>), PyNone,
              Dict(<< <<"properties",
                        Dict(<< <<"query", Tagged(Str(TagString))>> >>)>>,
                      <<"required", List(<<Str(<<"q","u","e","r","y">>),
                                           Str(<<"g","h","o","s","t">>)>>)>> >>),
              PyNone, PyNone)

\* an enumeration without values
SchemaEmptyEnum ==
    NewSchema(Str(<<"e","m","p">>), PyNone,
              Dict(<< <<"properties",
                        Dict(<< <<"mode", Dict(<< <<"enum", List(<<>>)>> >>)>> >>)>> >>),
              PyNone, PyNone)

FrontSchemas ==
    {SchemaNoParams, SchemaSearch, SchemaDefaults, SchemaControls,
     SchemaCollision, SchemaReordered, SchemaGhost, SchemaEmptyEnum}

\* The payloads a user may have configured: the server URL and every required
\* name is absent or has one of the values
PayloadValues ==
    {[t |-> "absent"], Str(<<>>), Str(<<" ">>), Str(<<"v">>), PyInt(0), PyInt(3)}

RECURSIVE PayloadsOver(_)
PayloadsOver(names) ==
    IF names = <<>> THEN {<<>>}
    ELSE {Entry(KeyOf(Head(names)), v) \o rest :
             v \in PayloadValues, rest \in PayloadsOver(Tail(names))}

\* the names of `required` without repetition of the server URL
RECURSIVE RequiredNames(_, _)
RequiredNames(s, i) ==
    IF i > Len(RequiredFields(s).v) THEN <<>>
    ELSE <<RequiredFields(s).v[i].v>> \o RequiredNames(s, i + 1)

Payloads(s) ==
    {Dict(Entry("mcp_server_url", u) \o rest) :
        u \in {[t |-> "absent"], Str(<<>>), Str(<<" ">>), Str(UrlMcp)},
        rest \in PayloadsOver(RequiredNames(s, 1))}

Translators == {"undefined", "empty", "text"}

NotGenerated == [exc |-> "not generated", value |-> <<>>]
NoPayload == [t |-> "absent"]
NoVerdict == [isValid |-> FALSE, errorMessage |-> <<"not run">>]

FIdle ==
    /\ front_schema = PyNone
    /\ fpc = "off"
    /\ manifest_inputs = NotGenerated
    /\ node_py = NotGenerated
    /\ panel = NotGenerated
    /\ default_ts = NotGenerated
    /\ payload = NoPayload
    /\ valid_result = NoVerdict

FInit ==
    /\ front_schema \in FrontSchemas
    /\ fpc = "manifest"
    /\ manifest_inputs = NotGenerated
    /\ node_py = NotGenerated
    /\ panel = NotGenerated
    /\ default_ts = NotGenerated
    /\ payload = NoPayload
    /\ valid_result = NoVerdict

\* generate: _generate_manifest builds the inputs
CallGenerateInputSchema ==
    /\ fpc = "manifest"
    /\ manifest_inputs' = Gives(GenerateInputSchema(front_schema))
    /\ fpc' = "backend"
    /\ UNCHANGED <<front_schema, node_py, panel, default_ts, payload, valid_result,
                   dvars, tvars, gvars, mvars, rvars, bvars>>

\* generate: _generate_backend builds node.py
CallGenerateNodePy ==
    /\ fpc = "backend"
    /\ \E url \in GenUrls : node_py' = Gives(NodePy(front_schema, url))
    /\ fpc' = "panel"
    /\ UNCHANGED <<front_schema, manifest_inputs, panel, default_ts, payload,
                   valid_result, dvars, tvars, gvars, mvars, rvars, bvars>>

\* generate: _generate_frontend builds panel.tsx; an exception ends generate
CallGeneratePanelTsx ==
    /\ fpc = "panel"
    /\ panel' = GeneratePanelTsx(front_schema)
    /\ fpc' = IF panel'.exc = "none" THEN "default" ELSE "failed"
    /\ UNCHANGED <<front_schema, manifest_inputs, node_py, default_ts, payload,
                   valid_result, dvars, tvars, gvars, mvars, rvars, bvars>>

\* generate: _generate_frontend builds default.ts
CallGenerateDefaultTs ==
    /\ fpc = "default"
    /\ default_ts' = Gives(GenerateDefaultTs(front_schema))
    /\ fpc' = "ready"
    /\ UNCHANGED <<front_schema, manifest_inputs, node_py, panel, payload,
                   valid_result, dvars, tvars, gvars, mvars, rvars, bvars>>

\* the host calls checkValid(payload, t) of the generated default.ts
CheckValid ==
    /\ fpc = "ready"
    /\ \E p \in Payloads(front_schema), translator \in Translators :
          /\ payload' = p
          /\ valid_result' = RunCheckValid(default_ts.value.checks, p, translator)
    /\ fpc' = "checked"
    /\ UNCHANGED <<front_schema, manifest_inputs, node_py, panel, default_ts,
                   dvars, tvars, gvars, mvars, rvars, bvars>>

-----------------------------------------------------------------------------
(* The two callers of generate: the loop of cmd_generate (cli.py) and       *)
(* CustomNodeGenerator.generate_all                                          *)

MaxBatch == 2

\* the lists of schemas handed over; cmd_generate returns before its loop
\* when the list is empty
RECURSIVE ListsUpTo(_, _)
ListsUpTo(S, n) ==
    IF n = 0 THEN {<<>>}
    ELSE ListsUpTo(S, n - 1)
         \cup {Append(l, x) : l \in {m \in ListsUpTo(S, n - 1) : Len(m) = n - 1}, x \in S}

Batches == ListsUpTo(GenSchemas, MaxBatch)

\* the lines of the loop of cmd_generate
Printed(tool, node_path) ==
    [stream |-> "stdout", name |-> tool.name.v, detail |-> <<node_path.v>>]
PrintedError(tool, e) ==
    [stream |-> "stderr", name |-> tool.name.v, detail |-> <<e.exc>>]

NoBatch == [schemas |-> <<>>, server_url |-> <<>>]

BIdle ==
    /\ bmode = "off"
    /\ batch = NoBatch
    /\ bpos = 0
    /\ paths = <<>>
    /\ reports = <<>>
    /\ attempts = <<>>
    /\ bresult = PyNone

BInit ==
    /\ bmode \in {"cli", "all"}
    /\ batch \in [schemas : Batches, server_url : GenUrls]
    /\ bmode = "cli" => batch.schemas # <<>>
    /\ bpos = 0
    /\ paths = <<>>
    /\ reports = <<>>
    /\ attempts = <<>>
    /\ bresult = PyNone

\* the output directory of a batch, with gvars otherwise unused
BGInit ==
    /\ fs \in InitialFs
    /\ genArgs = NoArgs
    /\ genResult = PyNone
    /\ gpc = "off"
    /\ prevArgs = NoArgs
    /\ fsBefore = fs
    /\ prevResult = PyNone
    /\ failedAt = 0
    /\ writeFailed = FALSE

\* self.generate(schema, server_url) returning for the next element
GenerateNext(s) ==
    /\ fs' = WriteFirst(fs, s, batch.server_url, Len(BundleFiles))
    /\ fsBefore' = fs
    /\ failedAt' = 0
    /\ attempts' = Append(attempts, [name |-> s.name.v, failed |-> 0])
    /\ bpos' = bpos + 1
    /\ UNCHANGED <<writeFailed, genArgs, genResult, gpc, prevArgs, prevResult>>

\* self.generate(schema, server_url) raising at its k-th write
GenerateNextFails(s, k, opened) ==
    /\ ~writeFailed
    /\ fs' = FailedWrite(WriteFirst(fs, s, batch.server_url, k - 1),
                         NodePath(s, BundleFiles[k]), opened)
    /\ fsBefore' = fs
    /\ failedAt' = k
    /\ writeFailed' = TRUE
    /\ attempts' = Append(attempts, [name |-> s.name.v, failed |-> k])
    /\ bpos' = bpos + 1
    /\ UNCHANGED <<genArgs, genResult, gpc, prevArgs, prevResult>>

\* cmd_generate, one round of `for tool in tools`: generate returned
CmdGenerateTool ==
    /\ bmode = "cli" /\ bresult = PyNone
    /\ bpos < Len(batch.schemas)
    /\ LET tool == batch.schemas[bpos + 1] IN
          /\ GenerateNext(tool)
          /\ reports' = Append(reports, Printed(tool, tool.node_type))
    /\ UNCHANGED <<bmode, batch, paths, bresult, dvars, tvars, mvars, rvars, fvars>>

\* (mutant) the first failure ends the loop
CmdGenerateToolFails_Aborts ==
    /\ bmode = "cli" /\ bresult = PyNone
    /\ bpos < Len(batch.schemas)
    /\ LET tool == batch.schemas[bpos + 1] IN
       \E k \in DOMAIN BundleFiles, opened \in BOOLEAN :
          /\ GenerateNextFails(tool, k, opened)
          /\ reports' = Append(reports, PrintedError(tool, GenRaised))
    /\ bresult' = PyInt(1)
    /\ UNCHANGED <<bmode, batch, paths, dvars, tvars, mvars, rvars, fvars>>

\* cmd_generate, one round of `for tool in tools`: generate raised
CmdGenerateToolFails ==
    /\ bmode = "cli" /\ bresult = PyNone
    /\ bpos < Len(batch.schemas)
    /\ LET tool == batch.schemas[bpos + 1] IN
       \E k \in DOMAIN BundleFiles, opened \in BOOLEAN :
          /\ GenerateNextFails(tool, k, opened)
          /\ reports' = Append(reports, PrintedError(tool, GenRaised))
    /\ UNCHANGED <<bmode, batch, paths, bresult, dvars, tvars, mvars, rvars, fvars>>

\* cmd_generate after the loop: return 0
CmdGenerateReturns ==
    /\ bmode = "cli" /\ bresult = PyNone
    /\ bpos = Len(batch.schemas)
    /\ bresult' = PyInt(0)
    /\ UNCHANGED <<bmode, batch, bpos, paths, reports, attempts,
                   dvars, tvars, gvars, mvars, rvars, fvars>>

\* generate_all, one element of the comprehension: generate returned
GenerateAllNext ==
    /\ bmode = "all" /\ bresult = PyNone
    /\ bpos < Len(batch.schemas)
    /\ LET schema == batch.schemas[bpos + 1] IN
          /\ GenerateNext(schema)
          /\ paths' = Append(paths, schema.node_type)
    /\ UNCHANGED <<bmode, batch, reports, bresult, dvars, tvars, mvars, rvars, fvars>>

\* (mutant) a schema whose generation fails is skipped
GenerateAllFails_Skips ==
    /\ bmode = "all" /\ bresult = PyNone
    /\ bpos < Len(batch.schemas)
    /\ LET schema == batch.schemas[bpos + 1] IN
       \E k \in DOMAIN BundleFiles, opened \in BOOLEAN :
          GenerateNextFails(schema, k, opened)
    /\ UNCHANGED <<bmode, batch, paths, reports, bresult, dvars, tvars, mvars, rvars,
                   fvars>>

\* generate_all, one element of the comprehension: generate raised and the
\* exception leaves generate_all
GenerateAllFails ==
    /\ bmode = "all" /\ bresult = PyNone
    /\ bpos < Len(batch.schemas)
    /\ LET schema == batch.schemas[bpos + 1] IN
       \E k \in DOMAIN BundleFiles, opened \in BOOLEAN :
          GenerateNextFails(schema, k, opened)
    /\ bresult' = GenRaised
    /\ UNCHANGED <<bmode, batch, paths, reports, dvars, tvars, mvars, rvars, fvars>>

\* generate_all returns the list it built
GenerateAllReturns ==
    /\ bmode = "all" /\ bresult = PyNone
    /\ bpos = Len(batch.schemas)
    /\ bresult' = List(paths)
    /\ UNCHANGED <<bmode, batch, bpos, paths, reports, attempts,
                   dvars, tvars, gvars, mvars, rvars, fvars>>

-----------------------------------------------------------------------------
(* The caller drives one of the three: the construction of a schema, an     *)
(* extractor, or a generator.                                               *)

Init ==
    \/ DInit /\ TIdle /\ GIdle /\ MIdle /\ RIdle /\ FIdle /\ BIdle
    \/ DIdle /\ TInit /\ GIdle /\ MIdle /\ RIdle /\ FIdle /\ BIdle
    \/ DIdle /\ TIdle /\ GInit /\ MIdle /\ RIdle /\ FIdle /\ BIdle

Next ==
    \/ PostInit
    \/ ExtractTools
    \/ SseOpen
    \/ SseReadLine
    \/ SseStreamEnds
    \/ SseReadFails
    \/ PostListTools
    \/ PostResponse
    \/ SaveSchemas
    \/ FromJsonFile
    \/ Generate

Spec == Init /\ [][Next]_vars

\* The generator alone, on a disk whose writes may fail
GenInit == DIdle /\ TIdle /\ GInit /\ MIdle /\ RIdle /\ FIdle /\ BIdle

GenNext ==
    \/ Generate
    \/ GenerateFails

SpecGen == GenInit /\ [][GenNext]_vars

\* The type mapping of one parameter schema
TypesInit == DIdle /\ TIdle /\ GIdle /\ MInit /\ RIdle /\ FIdle /\ BIdle

TypesNext ==
    \/ CallGetTypescriptType
    \/ CallGetPythonType

SpecTypes == TypesInit /\ [][TypesNext]_vars

\* One run of a generated node
RunInit == DIdle /\ TIdle /\ GIdle /\ MIdle /\ RInit /\ FIdle /\ BIdle

RunNext ==
    \/ RunStart
    \/ InvokeReturns
    \/ InvokeRaises

SpecRun == RunInit /\ [][RunNext]_vars

\* The manifest inputs and the frontend generated for one schema, and one
\* call of the generated checkValid
FrontInit == DIdle /\ TIdle /\ GIdle /\ MIdle /\ RIdle /\ FInit /\ BIdle

FrontNext ==
    \/ CallGenerateInputSchema
    \/ CallGenerateNodePy
    \/ CallGeneratePanelTsx
    \/ CallGenerateDefaultTs
    \/ CheckValid

SpecFront == FrontInit /\ [][FrontNext]_vars

\* A caller that generates a list of schemas
BatchInit == DIdle /\ TIdle /\ BGInit /\ MIdle /\ RIdle /\ FIdle /\ BInit

BatchNext ==
    \/ CmdGenerateTool
    \/ CmdGenerateToolFails
    \/ CmdGenerateReturns
    \/ GenerateAllNext
    \/ GenerateAllFails
    \/ GenerateAllReturns

SpecBatch == BatchInit /\ [][BatchNext]_vars

-----------------------------------------------------------------------------
(* Properties of the transport *)

\* The code defines no exception classes.  The error taxonomy is read as a
\* classification of the exceptions the code lets escape: a missing key of a
\* tool record is the schema error, a failed file operation the I/O failure,
\* everything else a fetch raises the transport error.
SchemaErrors == {"KeyError"}
TransportErrors ==
    {"httpx.ConnectError", "httpx.ReadError", "httpx.HTTPStatusError",
     "ValueError", "JSONDecodeError", "AttributeError", "TypeError"}

\* the variant the extractor's URL selects
HandshakeVariant == pc # "off" /\ UsesSse(server_url)
DirectVariant == pc # "off" /\ ~UsesSse(server_url)

FetchEnded == pc = "idle" /\ outcome.op = "fetch"
FetchRaised == FetchEnded /\ outcome.kind = "raise"
FetchReturned == FetchEnded /\ outcome.kind = "return"

\* a stream line that is an event whose payload is an object with `endpoint`
CarriesEndpoint(line) ==
    /\ line.data
    /\ line.payload.t = "object"
    /\ \E i \in DOMAIN line.payload.v : line.payload.v[i][1] = "endpoint"

AnnouncedValue(line) ==
    line.payload.v[CHOOSE i \in DOMAIN line.payload.v :
                      line.payload.v[i][1] = "endpoint"][2].v

NoEndpointSeen == \A i \in DOMAIN linesRead : ~CarriesEndpoint(linesRead[i])

\* C1: in the handshake variant, as long as no event carrying `endpoint` has
\* been read the tools/list request is neither prepared nor sent, and a fetch
\* that ends in that situation ends raising a transport error, with no tool
\* list returned.
C1_NoEndpointNoRequest ==
    (HandshakeVariant /\ NoEndpointSeen) =>
        /\ posts = 0
        /\ pc \notin {"post", "await"}
        /\ FetchEnded =>
              /\ outcome.kind = "raise"
              /\ outcome.exc \in TransportErrors
              /\ outcome.value = <<>>

\* the stream was opened, two lines without endpoint were read, it closed
C1_Witness ==
    /\ FetchRaised
    /\ HandshakeVariant
    /\ opens = 1
    /\ linesRead = <<NonDataLine, PingEvent>>
    /\ outcome.exc = "ValueError"
    /\ posts = 0

\* a line the loop has to pass over: not a data line, or an event whose
\* payload is an object without `endpoint`
Skippable(line) ==
    \/ ~line.data
    \/ line.payload.t = "object" /\ ~CarriesEndpoint(line)

FirstEndpointLine ==
    CHOOSE i \in DOMAIN linesRead :
        /\ CarriesEndpoint(linesRead[i])
        /\ \A j \in 1..(i - 1) : ~CarriesEndpoint(linesRead[j])

C2_State ==
    /\ posts <= 1
    /\ (HandshakeVariant /\ posts = 1) =>
          /\ ~NoEndpointSeen
          /\ postTarget = Str(AnnouncedValue(linesRead[FirstEndpointLine]))
          /\ postTarget # Str(server_url)
          /\ \A j \in 1..(FirstEndpointLine - 1) : Skippable(linesRead[j])
    /\ (HandshakeVariant /\ FetchReturned) => posts = 1

C2_SkipStep ==
    (/\ pc = "read"
     /\ Len(linesRead') = Len(linesRead) + 1
     /\ Skippable(linesRead'[Len(linesRead')]))
    => UNCHANGED <<pc, endpoint_url, tools, outcome, opens, posts, postTarget>>

\* C2: in the handshake variant the tools/list request is sent at most once
\* (exactly once by the time fetch returns), only after an event carrying
\* `endpoint` was read, to the value announced by the first such event and
\* not to the original endpoint; reading a line without the `data: ` prefix,
\* or an event whose object payload has no `endpoint`, changes nothing but
\* the position in the stream.
C2_RequestToFirstEndpoint == []C2_State /\ [][C2_SkipStep]_vars

\* two skipped lines, then the first endpoint event; the request went out
C2_Witness ==
    /\ pc = "await"
    /\ linesRead = <<NonDataLine, PingEvent, EndpointEvent(Session2)>>
    /\ postTarget = Str(Session2)
    /\ posts = 1

\* members of a JSON object, as the wire or the file holds them
JHas(o, k) == \E i \in DOMAIN o.v : o.v[i][1] = k
JItem(o, k) == o.v[CHOOSE i \in DOMAIN o.v : o.v[i][1] = k][2]

\* a body that is not a tool listing: undecodable, not an object, without a
\* `result` object, or with `tools` that is no array
MalformedBody(b) ==
    \/ b.t # "object"
    \/ ~JHas(b, "result")
    \/ JItem(b, "result").t # "object"
    \/ /\ JHas(JItem(b, "result"), "tools")
       /\ JItem(JItem(b, "result"), "tools").t # "array"

FailedResponse(resp) ==
    \/ resp.kind = "network"
    \/ ~IsSuccess(resp.status)
    \/ MalformedBody(resp.body)

MalformedLine(line) == line.data /\ line.payload.t # "object"

\* C3: a fetch of either variant, in either phase, ends raising a transport
\* error, and returns no tool list, whenever a request met a network failure
\* or a non-success status, or a payload was malformed.
C3_FailureRaisesTransportError ==
    (FetchEnded /\ (\/ /\ outcome.src.what = "response"
                       /\ FailedResponse(outcome.src.doc)
                    \/ \E i \in DOMAIN linesRead : MalformedLine(linesRead[i])))
    => (outcome.kind = "raise" /\ outcome.exc \in TransportErrors)

C4_State ==
    /\ opens <= 1
    /\ posts <= 1
    /\ DirectVariant => opens = 0
    /\ FetchRaised => pc = "idle"

C4_Step ==
    (opens' + posts' > opens + posts) =>
        /\ opens' + posts' = opens + posts + 1
        /\ pc \in {"open", "post"}
        /\ outcome.kind = "none"

\* C4: within one fetch the stream is opened at most once and the tools/list
\* request is sent at most once; a request is only issued by a call that has
\* not failed, and a failed request ends the call with the error.
C4_NoRetry == []C4_State /\ [][C4_Step]_vars

\* the stream was opened, the tools/list request failed, nothing was re-sent
C4_Witness ==
    /\ FetchRaised
    /\ outcome.exc = "httpx.ConnectError"
    /\ opens = 1
    /\ posts = 1

IsToolsListing(b) == ~MalformedBody(b) /\ JHas(JItem(b, "result"), "tools")
ListedRecords(b) == JItem(JItem(b, "result"), "tools").v

IsSchemaFile(doc) ==
    \/ doc.t = "array"
    \/ doc.t = "object" /\ JHas(doc, "tools") /\ JItem(doc, "tools").t = "array"
FileRecords(doc) == IF doc.t = "array" THEN doc.v ELSE JItem(doc, "tools").v

Nameless(r) == r.t = "object" /\ ~JHas(r, "name")
WellFormedRecord(r) ==
    r.t = "object" /\ JHas(r, "name") /\ JItem(r, "name").t = "string"

HasNameless(records) == \E i \in DOMAIN records : Nameless(records[i])
NamelessFirstDefect(records) ==
    \E i \in DOMAIN records :
        /\ Nameless(records[i])
        /\ \A j \in 1..(i - 1) : WellFormedRecord(records[j])

\* the records the ended call was given, <<>> if it was given no listing
RecordsGiven ==
    IF /\ outcome.op = "fetch"
       /\ outcome.src.what = "response"
       /\ ~FailedResponse(outcome.src.doc)
       /\ IsToolsListing(outcome.src.doc.body)
    THEN ListedRecords(outcome.src.doc.body)
    ELSE IF /\ outcome.op = "load"
            /\ outcome.src.what = "file"
            /\ outcome.src.doc # NoFile
            /\ IsSchemaFile(outcome.src.doc)
    THEN FileRecords(outcome.src.doc)
    ELSE <<>>

C5_State ==
    /\ HasNameless(RecordsGiven) =>
          outcome.kind = "raise" /\ outcome.value = <<>>
    /\ NamelessFirstDefect(RecordsGiven) => outcome.exc \in SchemaErrors

C5_Step == (outcome'.kind = "raise") => (tools' = tools)

\* C5: a listing (fetch, either variant) or a file (load) holding a record
\* without `name` makes the operation end raising, returning nothing and
\* leaving the extractor's list as it was; the error is the schema error when
\* the records before the nameless one are well formed.
C5_NamelessRecordFails == []C5_State /\ [][C5_Step]_vars

\* a valid record followed by a nameless one, after an earlier good fetch
C5_Witness ==
    /\ FetchRaised
    /\ outcome.exc = "KeyError"
    /\ RecordsGiven = <<RawFull, RawNoName>>
    /\ Len(tools) = 1

-----------------------------------------------------------------------------
(* Properties of the schema entity and of the identifier derivation *)

SlugChars == Range(LowerLetters) \cup Digits
Separators == {"_", "-", " ", "\t"}
McpDash == <<"m","c","p","-">>

\* the maximal runs of characters of [a-z0-9] in s
RECURSIVE AlnumRuns(_, _)
AlnumRuns(s, cur) ==
    IF s = <<>> THEN (IF cur = <<>> THEN <<>> ELSE <<cur>>)
    ELSE IF Head(s) \in SlugChars
         THEN AlnumRuns(Tail(s), Append(cur, Head(s)))
         ELSE (IF cur = <<>> THEN <<>> ELSE <<cur>>) \o AlnumRuns(Tail(s), <<>>)

RECURSIVE JoinHyphen(_)
JoinHyphen(runs) ==
    IF runs = <<>> THEN <<>>
    ELSE IF Len(runs) = 1 THEN runs[1]
    ELSE runs[1] \o <<"-">> \o JoinHyphen(Tail(runs))

\* to_slug_identifier, as the specification words it
ExpectedSlug(n) == McpDash \o JoinHyphen(AlnumRuns(StrLower(n), <<>>))

\* to_type_identifier, character by character: the separators are dropped,
\* a character is upper-cased where a segment starts, lower-cased elsewhere
RECURSIVE PascalFrom(_, _)
PascalFrom(n, i) ==
    IF i > Len(n) THEN <<>>
    ELSE (IF n[i] \in Separators THEN <<>>
          ELSE IF i = 1 \/ n[i - 1] \in Separators THEN <<UpperChar(n[i])>>
          ELSE <<LowerChar(n[i])>>)
         \o PascalFrom(n, i + 1)

ExpectedTypeName(n) == <<"M","C","P">> \o PascalFrom(n, 1) \o <<"N","o","d","e">>

\* C6: loading the file save_schemas wrote returns as many schemas as the
\* extractor holds, in the same order, each with the same name, description,
\* input_schema, output_schema, annotations, identifier and type name.
C6_SaveLoadRoundTrip ==
    (pc = "idle" /\ outcome.op = "load" /\ file # NoFile
       /\ outcome.src = FromFile(file)) =>
        /\ outcome.kind = "return"
        /\ Len(outcome.value) = Len(tools)
        /\ \A i \in DOMAIN tools :
              /\ outcome.value[i].name = tools[i].name
              /\ outcome.value[i].description = tools[i].description
              /\ outcome.value[i].input_schema = tools[i].input_schema
              /\ outcome.value[i].output_schema = tools[i].output_schema
              /\ outcome.value[i].annotations = tools[i].annotations
              /\ outcome.value[i].node_type = tools[i].node_type
              /\ outcome.value[i].class_name = tools[i].class_name

\* two schemas, the first with every optional field, saved and loaded back
C6_Witness ==
    /\ pc = "idle" /\ outcome.op = "load" /\ outcome.kind = "return"
    /\ file # NoFile
    /\ outcome.src = FromFile(file)
    /\ Len(tools) = 2
    /\ tools[1].output_schema # PyNone
    /\ tools[2].description = PyNone

\* C7: when generate is called again with the arguments of the call before,
\* every file of the bundle exists and holds after the second call what it
\* held after the first, whatever the directory held before the first.
C7_RegenerationIdempotent ==
    (gpc = "idle" /\ genArgs # NoArgs /\ prevArgs = genArgs
       /\ genResult # GenRaised /\ prevResult # GenRaised) =>
        \A i \in DOMAIN BundleFiles :
            LET p == NodePath(genArgs.schema, BundleFiles[i]) IN
            /\ fs[p].exists
            /\ fs[p] = fsBefore[p]

\* a second generate over a bundle written over older files
C7_Witness ==
    /\ gpc = "idle" /\ genArgs # NoArgs /\ prevArgs = genArgs
    /\ genResult # GenRaised /\ prevResult # GenRaised
    /\ genArgs.schema.name = Str(<<"a","_","B">>)
    /\ fs[OutsidePath] = FileWith(StaleData)
    /\ fs[NodePath(genArgs.schema, "manifest.json")] # FileWith(StaleData)

\* every schema the program holds
SchemasHeld ==
    Range(tools) \cup Range(outcome.value)
    \cup (IF genArgs # NoArgs THEN {genArgs.schema} ELSE {})
    \cup (IF prevArgs # NoArgs THEN {prevArgs.schema} ELSE {})

\* C8: every schema held - built by fetch, by load, handed to the generator,
\* or constructed directly - has identifier = to_slug_identifier(name) and
\* type_name = to_type_identifier(name), whatever its other fields and whatever
\* derived values a loaded file stored.
C8_DerivedFromNameAlone ==
    /\ \A s \in SchemasHeld :
          /\ s.node_type = Str(ExpectedSlug(s.name.v))
          /\ s.class_name = Str(ExpectedTypeName(s.name.v))
    /\ dpc = "built" =>
          /\ node_type = ExpectedSlug(name)
          /\ class_name = ExpectedTypeName(name)

\* a file whose record stores other derived values was loaded
C8_Witness ==
    /\ outcome.op = "load" /\ outcome.kind = "return"
    /\ outcome.src = FromFile(JArr(<<FileRecord(<<"a","_","B">>, <<"x">>)>>))
    /\ outcome.value[1].node_type = Str(<<"m","c","p","-","a","-","b">>)

C10_TypeIdentifier ==
    dpc = "built" =>
        /\ class_name = ExpectedTypeName(name)
        /\ name = list_directory =>
              class_name = <<"M","C","P","L","i","s","t">>
                           \o <<"D","i","r","e","c","t","o","r","y">>
                           \o <<"N","o","d","e">>

\* a mixed-case segment followed by a separator
C10_Witness ==
    /\ dpc = "built"
    /\ name = <<"a", "B", "-">>
    /\ class_name = <<"M","C","P","A","b","N","o","d","e">>

-----------------------------------------------------------------------------
(* Properties of the derived names on unusual tool names *)

\* the characters that may appear in a class name
IdentifierChars ==
    Range(LowerLetters) \cup Range(UpperLetters) \cup Digits
    \cup {NonAsciiLower, NonAsciiUpper}

\* C11: for every tool name the type name starts with `MCP`, ends with `Node`
\* and consists only of letters and digits.
C11_TypeNameSafe ==
    dpc = "built" =>
        /\ Len(class_name) >= 7
        /\ SubSeq(class_name, 1, 3) = <<"M","C","P">>
        /\ SubSeq(class_name, Len(class_name) - 3, Len(class_name))
              = <<"N","o","d","e">>
        /\ \A i \in DOMAIN class_name : class_name[i] \in IdentifierChars

\* a name without a letter or a digit in it
AllSymbolName(n) == n # <<>> /\ \A i \in DOMAIN n : n[i] \notin IdentifierChars

\* C12: for every name made only of non-alphanumeric characters the
\* derivation succeeds with identifier `mcp-` and type identifier `MCPNode`.
C12_AllSymbolNameDegenerates ==
    (dpc = "built" /\ AllSymbolName(name)) =>
        /\ node_type = McpDash
        /\ class_name = <<"M","C","P","N","o","d","e">>

-----------------------------------------------------------------------------
(* Properties of generate *)

\* the last generate call ran to its end / the one before it did
LastCallSucceeded == genArgs # NoArgs /\ failedAt = 0
PrevCallSucceeded == prevArgs # NoArgs /\ prevResult # GenRaised

\* the directory of the last call's schema, and the text the call generates
LastDir == genArgs.schema.node_type.v
LastText(f) == FileWith(FileData(f, genArgs.schema, genArgs.url))

\* the last two calls were given schemas of different names and one identifier
Collision ==
    /\ genArgs # NoArgs /\ prevArgs # NoArgs
    /\ genArgs.schema.name # prevArgs.schema.name
    /\ genArgs.schema.node_type = prevArgs.schema.node_type

\* C13: when two schemas of different names and one identifier are generated
\* one after the other, the second call is not rejected: both calls return
\* the same directory and every file of the bundle holds the text generated
\* for the second schema.
C13_CollisionOverwrites ==
    (Collision /\ PrevCallSucceeded /\ failedAt = 0) =>
        /\ genResult = Str(LastDir)
        /\ genResult = prevResult
        /\ \A i \in DOMAIN BundleFiles :
              fs[<<LastDir, BundleFiles[i]>>] = LastText(BundleFiles[i])

\* `a_B` was generated, then `a-b` into the same directory
C13_Witness ==
    /\ Collision /\ PrevCallSucceeded /\ failedAt = 0
    /\ prevArgs.schema.name = Str(<<"a","_","B">>)
    /\ genArgs.schema.name = Str(<<"a","-","b">>)
    /\ genResult = Str(<<"m","c","p","-","a","-","b">>)
    /\ fs[<<LastDir, "manifest.json">>] # fsBefore[<<LastDir, "manifest.json">>]

\* the nine files of a bundle, as the specification lists them
NineFiles ==
    {"manifest.json", "backend/__init__.py", "backend/node.py",
     "frontend/index.ts", "frontend/types.ts", "frontend/node.tsx",
     "frontend/panel.tsx", "frontend/use-config.ts", "frontend/default.ts"}

\* C14: a generate call that succeeds returns output_dir/<identifier>, leaves
\* the nine files of the bundle in it with their generated text
\* (backend/__init__.py empty), leaves every other file as it was, and sends
\* nothing over the network.
C14_WritesExactlyTheBundle ==
    LastCallSucceeded =>
        /\ genResult = Str(LastDir)
        /\ \A f \in NineFiles : fs[<<LastDir, f>>] = LastText(f)
        /\ fs[<<LastDir, "backend/__init__.py">>] = FileWith(<<>>)
        /\ \A p \in DOMAIN fs :
              ~(p[1] = LastDir /\ p[2] \in NineFiles) => fs[p] = fsBefore[p]
        /\ opens = 0 /\ posts = 0

\* a bundle written into an empty output directory
C14_Witness ==
    /\ LastCallSucceeded
    /\ genResult = Str(McpDash \o <<"l","i","s","t","-">>
                       \o <<"d","i","r","e","c","t","o","r","y">>)
    /\ \A p \in DOMAIN fsBefore : ~fsBefore[p].exists
    /\ Cardinality({p \in DOMAIN fs : fs[p].exists}) = 9

\* the order of the writes, as the specification gives it
ClaimedOrder ==
    <<"manifest.json", "backend/__init__.py", "backend/node.py",
      "frontend/index.ts", "frontend/types.ts", "frontend/node.tsx",
      "frontend/panel.tsx", "frontend/use-config.ts", "frontend/default.ts">>

\* C15: when a write fails during generate the call raises OSError and returns
\* no path; the files that come before the failing one in the order manifest,
\* backend initializer, backend logic, frontend files hold their generated
\* text, and the files after it are as they were before the call.
C15_WriteFailurePropagates ==
    failedAt # 0 =>
        /\ genResult = GenRaised
        /\ genResult.exc = "OSError"
        /\ \A i \in 1..(failedAt - 1) :
              fs[<<LastDir, ClaimedOrder[i]>>] = LastText(ClaimedOrder[i])
        /\ \A i \in (failedAt + 1)..Len(ClaimedOrder) :
              fs[<<LastDir, ClaimedOrder[i]>>] = fsBefore[<<LastDir, ClaimedOrder[i]>>]
        /\ \A p \in DOMAIN fs : p[1] # LastDir => fs[p] = fsBefore[p]

\* the write of backend/node.py failed in an empty output directory
C15_Witness ==
    /\ failedAt = 3
    /\ genResult = GenRaised
    /\ fs[<<LastDir, "manifest.json">>] = LastText("manifest.json")
    /\ fs[<<LastDir, "backend/__init__.py">>].exists
    /\ ~fs[<<LastDir, "backend/node.py">>].exists
    /\ ~fs[<<LastDir, "frontend/index.ts">>].exists

-----------------------------------------------------------------------------
(* Properties of the generated backend logic *)

RunSchema == program.args.schema
RunBegun == rpc \in {"await", "done"}
UrlSet ==
    Has(node_data, "mcp_server_url") /\ Truthy(Item(node_data, "mcp_server_url"))

ParamKeys == {Properties(RunSchema).v[i][1] : i \in DOMAIN Properties(RunSchema).v}
RequiredKeys == {k \in ParamKeys : IsRequired(RunSchema, KeyChars(k))}
PropOf(k) == Item(Properties(RunSchema), k)

\* the configured value of a parameter is falsy, or there is neither a value
\* nor a declared default
FalsyValue(k) ==
    IF Has(node_data, k) THEN ~Truthy(Item(node_data, k))
    ELSE ~Has(PropOf(k), "default")

\* the required parameters whose value is falsy, by position in the schema
FalsyRequired ==
    {i \in DOMAIN Properties(RunSchema).v :
        /\ Properties(RunSchema).v[i][1] \in RequiredKeys
        /\ FalsyValue(Properties(RunSchema).v[i][1])}

FirstFalsyRequired ==
    CHOOSE i \in FalsyRequired : \A j \in FalsyRequired : i <= j

\* C16: a run with the server URL set and a falsy value for a required
\* parameter ends FAILED with the error `<Title-cased name> is required`
\* (naming the first such parameter of the schema) and sends no invocation.
C16_RequiredFieldGating ==
    (RunBegun /\ UrlSet /\ FalsyRequired # {}) =>
        /\ rpc = "done"
        /\ run_result.status = "FAILED"
        /\ run_result.error =
              FormatName(KeyChars(Properties(RunSchema).v[FirstFalsyRequired][1]))
                  \o <<" is required">>
        /\ invocations = <<>>

\* the literal the specification asks for
ExpectedLiteral(prop) ==
    IF ~Has(prop, "default") THEN <<"'", "'">>
    ELSE LET d == Item(prop, "default") IN
         IF d.t = "str" THEN <<"'">> \o d.v \o <<"'">>
         ELSE IF d.t = "None" THEN NoneText
         ELSE PyStr(d)

\* C17: the generated backend holds one statement `name = get_input('name', D)`
\* per schema parameter, D being one well-formed literal (the quoted default,
\* None, the literal value, or the empty string when no default is declared),
\* and the file is syntactically valid.
C17_InputExtraction ==
    rpc # "off" =>
        LET props == Properties(RunSchema).v
            lines == program.code.input_lines
        IN  /\ Len(lines) = Len(props)
            /\ \A i \in DOMAIN props :
                  /\ lines[i].name = KeyChars(props[i][1])
                  /\ lines[i].default = ExpectedLiteral(props[i][2])
                  /\ IsPyLiteral(lines[i].default)
            /\ ValidModule(program.code)

\* what the invocation of a finished run did
LastInvocation == invocations[1].outcome
Invoked == rpc = "done" /\ invocations # <<>>
ToolFlagged ==
    /\ LastInvocation.kind = "return"
    /\ LastInvocation.result.t = "dict"
    /\ Truthy(Get(LastInvocation.result, "isError", PyBool(FALSE)))
ExtractedText == ExtractText(LastInvocation.result)
OutputsOf(flag) ==
    Dict(<< <<"text", Str(ExtractedText.value)>>,
            <<"result", LastInvocation.result>>,
            <<"is_error", PyBool(flag)>> >>)

\* C18 as stated: a run that reaches the invocation ends FAILED with the
\* extracted text as error and is_error=true when the result is flagged,
\* FAILED with the exception's message when the invocation raises, and
\* SUCCEEDED with text, result and is_error=false otherwise.
C18_ThreeOutcomes ==
    Invoked =>
        /\ run_result.status \in {"FAILED", "SUCCEEDED"}
        /\ ToolFlagged =>
              /\ run_result.status = "FAILED"
              /\ run_result.error = ExtractedText.value
              /\ run_result.outputs = OutputsOf(TRUE)
        /\ LastInvocation.kind = "raise" =>
              /\ run_result.status = "FAILED"
              /\ run_result.error = InvocationFailed \o LastInvocation.message
        /\ (LastInvocation.kind = "return" /\ ~ToolFlagged) =>
              /\ run_result.status = "SUCCEEDED"
              /\ run_result.outputs = OutputsOf(FALSE)

\* the result cannot be processed: it is no mapping, its content cannot be
\* iterated, or a text item holds no string
Unprocessable ==
    LastInvocation.kind = "return" /\ ExtractedText.exc # "none"

\* C18 (amended): a run that reaches the invocation ends FAILED with
\* `MCP tool invocation failed: <message>` and no outputs when the invocation
\* raises or its result cannot be processed; FAILED with is_error=true and
\* the extracted text as error (`Tool returned an error` when that text is
\* empty) when the result is flagged; SUCCEEDED with text, result and
\* is_error=false otherwise.  SUCCEEDED is never the status of a flagged or
\* raised invocation.
C18_Outcomes ==
    Invoked =>
        /\ run_result.status \in {"FAILED", "SUCCEEDED"}
        /\ run_result.inputs = invocations[1].params
        /\ LastInvocation.kind = "raise" =>
              run_result = NodeRunResult("FAILED", invocations[1].params, Dict(<<>>),
                                         InvocationFailed \o LastInvocation.message)
        /\ Unprocessable =>
              run_result = NodeRunResult("FAILED", invocations[1].params, Dict(<<>>),
                                         InvocationFailed \o <<ExtractedText.exc>>)
        /\ (ToolFlagged /\ ~Unprocessable) =>
              /\ run_result.status = "FAILED"
              /\ run_result.outputs = OutputsOf(TRUE)
              /\ run_result.error = IF ExtractedText.value # <<>>
                                    THEN ExtractedText.value
                                    ELSE <<"Tool returned an error">>
        /\ (LastInvocation.kind = "return" /\ ~ToolFlagged /\ ~Unprocessable) =>
              /\ run_result.status = "SUCCEEDED"
              /\ run_result.outputs = OutputsOf(FALSE)
              /\ run_result.error = <<>>
        /\ run_result.status = "SUCCEEDED" =>
              LastInvocation.kind = "return" /\ ~ToolFlagged

\* a flagged result without text: the error is the fixed message
C18_Witness ==
    /\ Invoked
    /\ ToolFlagged
    /\ ExtractedText = Gives(<<>>)
    /\ run_result.status = "FAILED"
    /\ run_result.error = <<"Tool returned an error">>

\* C19: the invocation of a generated node goes to the server_url that was
\* passed to generate, with one parameter mapping holding exactly one entry
\* per schema parameter.
C19_InvocationTarget ==
    \A i \in DOMAIN invocations :
        /\ invocations[i].url = Str(program.args.url)
        /\ invocations[i].params.t = "dict"
        /\ [j \in DOMAIN invocations[i].params.v |-> invocations[i].params.v[j][1]]
              = [j \in DOMAIN Properties(RunSchema).v |-> Properties(RunSchema).v[j][1]]

-----------------------------------------------------------------------------
(* Properties of the type mapping *)

Vocabulary ==
    {Str(TagString), Str(TagNumber), Str(TagInteger), Str(TagBoolean),
     Str(TagArray), Str(TagObject)}

\* a parameter schema: a mapping whose `items`, if any, is a parameter schema
\* and whose `enum`, if any, is a list of values
RECURSIVE IsParameterSchema(_)
IsParameterSchema(p) ==
    /\ p.t = "dict"
    /\ Has(p, "items") => IsParameterSchema(Item(p, "items"))
    /\ Has(p, "enum") => (Item(p, "enum").t = "list" /\ Item(p, "enum").v # <<>>)

TagOutsideVocabulary(p) == ~Has(p, "type") \/ Item(p, "type") \notin Vocabulary

\* C20: for every parameter schema - any tag of the vocabulary, a tag
\* outside it, no tag, arrays with or without an element schema at any depth -
\* get_typescript_type and get_python_type return a type expression without
\* raising, `any` / `Any` when the tag is absent or unrecognized.
C20_TypeMappingTotal ==
    (prop_schema # NoProp /\ IsParameterSchema(prop_schema)) =>
        /\ ts_type # NotCalled =>
              /\ ts_type.exc = "none"
              /\ ts_type.value # <<>>
              /\ TagOutsideVocabulary(prop_schema) => ts_type.value = <<"a","n","y">>
        /\ py_type # NotCalled =>
              /\ py_type.exc = "none"
              /\ py_type.value # <<>>
              /\ TagOutsideVocabulary(prop_schema) => py_type.value = <<"A","n","y">>

\* an array of arrays of an unrecognized tag, mapped by both methods
C20_Witness ==
    /\ prop_schema =
          Dict(<< <<"type", Str(TagArray)>>,
                  <<"items", Dict(<< <<"type", Str(TagArray)>>,
                                     <<"items", Tagged(Str(<<"x">>))>> >>)>> >>)
    /\ ts_type = Gives(<<"a","n","y","[","]","[","]">>)
    /\ py_type = Gives(<<"l","i","s","t","[","l","i","s","t","[","A","n","y","]","]">>)

\* the union of the quoted values of an enumeration of strings
RECURSIVE QuotedUnion(_, _)
QuotedUnion(values, i) ==
    IF i > Len(values) THEN <<>>
    ELSE (IF i = 1 THEN <<>> ELSE <<" ", "|", " ">>)
         \o <<"'">> \o values[i].v \o <<"'">> \o QuotedUnion(values, i + 1)

\* the frontend type of the table
RECURSIVE TableTs(_)
TableTs(p) ==
    IF Has(p, "enum") THEN QuotedUnion(Item(p, "enum").v, 1)
    ELSE IF TagOutsideVocabulary(p) THEN <<"a","n","y">>
    ELSE LET tag == Item(p, "type").v IN
         IF tag = TagString THEN <<"s","t","r","i","n","g">>
         ELSE IF tag \in {TagNumber, TagInteger} THEN <<"n","u","m","b","e","r">>
         ELSE IF tag = TagBoolean THEN <<"b","o","o","l","e","a","n">>
         ELSE IF tag = TagObject
              THEN <<"R","e","c","o","r","d","<","s","t","r","i","n","g",",",
                     " ","a","n","y",">">>
         ELSE (IF Has(p, "items") THEN TableTs(Item(p, "items")) ELSE <<"a","n","y">>)
              \o <<"[", "]">>

\* the backend type of the table
RECURSIVE TablePy(_)
TablePy(p) ==
    IF TagOutsideVocabulary(p) THEN <<"A","n","y">>
    ELSE LET tag == Item(p, "type").v IN
         IF tag = TagString THEN <<"s","t","r">>
         ELSE IF tag = TagNumber THEN <<"f","l","o","a","t">>
         ELSE IF tag = TagInteger THEN <<"i","n","t">>
         ELSE IF tag = TagBoolean THEN <<"b","o","o","l">>
         ELSE IF tag = TagObject
              THEN <<"d","i","c","t","[","s","t","r",","," ","A","n","y","]">>
         ELSE <<"l","i","s","t","[">>
              \o (IF Has(p, "items") THEN TablePy(Item(p, "items")) ELSE <<"A","n","y">>)
              \o <<"]">>

\* C21: the mapped types are those of the table (string, number, integer,
\* boolean, object, array of the mapped element type, any / Any otherwise),
\* and the frontend type of a parameter that declares an enumeration is the
\* union of its quoted values.
C21_TypeTable ==
    (prop_schema # NoProp /\ IsParameterSchema(prop_schema)) =>
        /\ ts_type # NotCalled => ts_type = Gives(TableTs(prop_schema))
        /\ py_type # NotCalled => py_type = Gives(TablePy(prop_schema))

-----------------------------------------------------------------------------
(* Properties of the manifest inputs and of the generated frontend *)

FrontProps == Properties(front_schema).v

\* the entry of a parameter carries the key exactly when the schema declares
\* it, with the declared value
CarriesAsDeclared(entry, prop, key) ==
    /\ Has(entry, key) <=> Has(prop, key)
    /\ Has(prop, key) => Item(entry, key) = Item(prop, key)

\* C22: the manifest inputs hold the synthetic mcp_server_url entry marked
\* required and one entry per schema parameter, 1 + the number of parameters
\* in all; a parameter entry is marked required exactly when its name is in
\* `required` and carries `default` and `enum` exactly when declared.
C22_ManifestInputs ==
    manifest_inputs.exc = "none" =>
        LET inputs == manifest_inputs.value IN
        /\ Has(inputs, "mcp_server_url")
        /\ Item(inputs, "mcp_server_url") = ServerUrlInput
        /\ Get(Item(inputs, "mcp_server_url"), "required", PyBool(FALSE)) = PyBool(TRUE)
        /\ Len(inputs.v) = 1 + Len(FrontProps)
        /\ \A i \in DOMAIN FrontProps :
              /\ inputs.v[i + 1][1] = FrontProps[i][1]
              /\ LET entry == inputs.v[i + 1][2]
                     prop == FrontProps[i][2]
                 IN  /\ Has(entry, "required")
                          <=> IsRequired(front_schema, KeyChars(FrontProps[i][1]))
                     /\ Has(entry, "required") => Item(entry, "required") = PyBool(TRUE)
                     /\ CarriesAsDeclared(entry, prop, "default")
                     /\ CarriesAsDeclared(entry, prop, "enum")

\* the blocks the panel holds for the schema parameters (the first block is
\* the server URL)
ParameterBlocks == Tail(panel.value)

DeclaredType(prop) == Get(prop, "type", Str(TagString))
NameHolds(n, word) == Contains(StrLower(n), word)
Sensitive(n) ==
    \/ NameHolds(n, <<"p","a","s","s","w","o","r","d">>)
    \/ NameHolds(n, <<"k","e","y">>)
    \/ NameHolds(n, <<"s","e","c","r","e","t">>)

\* the control the precedence asks for
ControlAsClaimed(block, n, prop) ==
    IF Has(prop, "enum")
    THEN block.control = "Select" /\ block.options = Item(prop, "enum").v
    ELSE IF DeclaredType(prop) = Str(TagBoolean)
    THEN block.control = "Switch"
    ELSE IF DeclaredType(prop) \in {Str(TagNumber), Str(TagInteger)}
    THEN /\ block.control = "Input" /\ block.input_type = "number"
         /\ OnChange(block, <<>>) = [t |-> "absent"]
         /\ OnChange(block, <<"3">>) = PyInt(3)
    ELSE /\ block.control = "Input"
         /\ block.input_type = (IF Sensitive(n) THEN "password" ELSE "")

\* C23: the panel holds exactly one block per schema parameter, in schema
\* order; its control is a select with the enum values if the parameter has
\* an enum, else a toggle if it is boolean, else a numeric input that stores
\* nothing for the empty string if it is number or integer, else a text input
\* that is masked exactly when the lowercased name contains password, key or
\* secret.
C23_PanelControls ==
    panel.exc = "none" =>
        /\ Len(ParameterBlocks) = Len(FrontProps)
        /\ \A i \in DOMAIN FrontProps :
              /\ ParameterBlocks[i].name = KeyChars(FrontProps[i][1])
              /\ ControlAsClaimed(ParameterBlocks[i], KeyChars(FrontProps[i][1]),
                                  FrontProps[i][2])

\* the panel of the schema with every kind of parameter: api_key of type
\* string is masked, the boolean parameter with an enum is a select
C23_Witness ==
    /\ panel.exc = "none"
    /\ front_schema = SchemaControls
    /\ \E i \in DOMAIN ParameterBlocks :
          /\ ParameterBlocks[i].name = <<"a","p","i","_","k","e","y">>
          /\ ParameterBlocks[i].control = "Input"
          /\ ParameterBlocks[i].input_type = "password"
    /\ \E i \in DOMAIN ParameterBlocks :
          /\ ParameterBlocks[i].name = <<"o","n">>
          /\ ParameterBlocks[i].control = "Select"
    /\ \E i \in DOMAIN ParameterBlocks :
          /\ ParameterBlocks[i].name = <<"k","e","y","_","n">>
          /\ ParameterBlocks[i].input_type = "number"

\* the fields checkValid is claimed to look at, in order
ServerUrlName == <<"m","c","p","_","s","e","r","v","e","r","_","u","r","l">>
ClaimedFields == <<ServerUrlName>> \o RequiredNames(front_schema, 1)

\* the value of the i-th claimed field in the payload checked
FieldValue(i) == Get(payload, KeyOf(ClaimedFields[i]), [t |-> "absent"])

\* absent, the empty string or whitespace only
Blank(x) ==
    \/ x.t = "absent"
    \/ x.t = "str" /\ \A j \in DOMAIN x.v : x.v[j] \in {" ", "\t"}

\* the two messages of a field: the translation of its own key, or the
\* built-in text
OwnMessages(i) ==
    IF i = 1
    THEN {<<"MCP Server URL is required">>,
          <<"t(", "workflow.nodes.mcp.serverUrlRequired", ")">>}
    ELSE {FormatName(ClaimedFields[i]) \o <<" is required">>,
          <<"t(", "workflow.nodes.">> \o front_schema.node_type.v \o <<".">>
              \o ClaimedFields[i] \o <<"Required", ")">>}

BlankFields == {i \in DOMAIN ClaimedFields : Blank(FieldValue(i))}
NoZero == \A i \in DOMAIN ClaimedFields : FieldValue(i) # PyInt(0)

BackendGuarded ==
    {node_py.value.validations[i].name : i \in DOMAIN node_py.value.validations}
FrontendChecked ==
    {default_ts.value.checks[i].field : i \in 2..Len(default_ts.value.checks)}
RequiredSet ==
    {RequiredFields(front_schema).v[i].v : i \in DOMAIN RequiredFields(front_schema).v}

\* C30: the set of parameters with a required-value guard in the generated
\* backend equals the set of parameters with an emptiness check in the
\* generated checkValid, and both equal the schema's `required` list.
C30_BackendFrontendAgree ==
    (node_py.exc = "none" /\ default_ts.exc = "none") =>
        /\ BackendGuarded = FrontendChecked
        /\ BackendGuarded = RequiredSet
        /\ FrontendChecked = RequiredSet

-----------------------------------------------------------------------------
(* Properties of fetch *)

\* the variant the fetch in progress (or the last fetch) runs
VariantRun ==
    IF pc = "open" \/ opens > 0 THEN "handshake"
    ELSE IF pc = "post" \/ posts > 0 THEN "direct"
    ELSE "none"

\* the path of the endpoint ends in /sse
PathEndsInSse ==
    LET path == UrlPath(server_url) IN
    Len(path) >= 4 /\ SubSeq(path, Len(path) - 3, Len(path)) = <<"/","s","s","e">>

\* C25: fetch runs the handshake variant when the path of the endpoint ends
\* in /sse and the direct variant otherwise, whatever the host and the query
\* string are.
C25_VariantFromPath ==
    (pc # "off" /\ VariantRun # "none") =>
        (VariantRun = "handshake" <=> PathEndsInSse)

\* a record that supplies `name` and nothing else
NameOnly(r) == WellFormedRecord(r) /\ Len(r.v) = 1

\* C26: a fetch (either variant) over well-formed records returns one schema
\* per record, in the order received and with repeated names kept; a record
\* that supplies only `name` gives a schema with an empty description and an
\* empty parameter schema (no properties, no required names).
C26_NameOnlyDefaults ==
    (FetchReturned /\ RecordsGiven # <<>>) =>
        /\ Len(outcome.value) = Len(RecordsGiven)
        /\ tools = outcome.value
        /\ \A i \in DOMAIN RecordsGiven :
              /\ outcome.value[i].name = Str(JItem(RecordsGiven[i], "name").v)
              /\ NameOnly(RecordsGiven[i]) =>
                    /\ outcome.value[i].description \in {PyNone, Str(<<>>)}
                    /\ outcome.value[i].input_schema = Dict(<<>>)
                    /\ Properties(outcome.value[i]) = Dict(<<>>)
                    /\ RequiredFields(outcome.value[i]) = List(<<>>)

\* the handshake variant returned two schemas for two records of one name
C26_Witness ==
    /\ FetchReturned
    /\ opens = 1
    /\ RecordsGiven = <<RawNameOnly, RawNameOnly>>
    /\ Len(tools) = 2
    /\ tools[1] = tools[2]
    /\ tools[1].description = PyNone

-----------------------------------------------------------------------------
(* Properties of the stored tool list *)

\* the extractor as __init__ leaves it: nothing fetched, saved or loaded yet
NothingDoneYet == pc = "idle" /\ outcome = NoOutcome

\* a fetch is under way: between the call of extract_tools and its end
FetchUnderWay == pc \in {"open", "read", "post", "await"}

C29_State ==
    /\ NothingDoneYet => tools = <<>>
    /\ FetchReturned =>
          /\ tools = outcome.value
          /\ Len(tools) = Len(RecordsGiven)
    /\ file # NoFile => file = SavedDocument(tools)

C29_Step ==
    /\ (FetchUnderWay /\ FetchRaised') => (tools' = tools /\ file' = file)
    /\ (FetchUnderWay /\ FetchUnderWay') => tools' = tools
    /\ (tools' # tools) => (FetchUnderWay /\ FetchReturned')
    /\ (file' # file) => (outcome'.op = "save" /\ tools' = tools)

\* C29: the stored list is empty before the first fetch, is left alone by
\* every step of a fetch except the last step of one that returns, which
\* stores the whole list it returns (one schema per record of the answer),
\* and a fetch that raises, in whichever phase, leaves it as it was; what
\* save_schemas writes is the document of the stored list, so the file holds
\* the records of the latest fetch that returned, or [] if none did.
C29_StoredListSurvivesFailure == []C29_State /\ [][C29_Step]_vars

\* the handshake of a second fetch ends without an endpoint while the list
\* of the first fetch, two schemas, is stored
C29_Witness ==
    /\ FetchRaised
    /\ outcome.exc = "ValueError"
    /\ HandshakeVariant
    /\ Len(tools) = 2

-----------------------------------------------------------------------------
(* Properties of the callers of generate *)

\* the calls of generate made so far are those for the first elements of the
\* list, one each, in list order
AttemptedInOrder ==
    /\ Len(attempts) = bpos
    /\ Len(attempts) <= Len(batch.schemas)
    /\ \A i \in DOMAIN attempts : attempts[i].name = batch.schemas[i].name.v

\* the i-th bundle has not been written over by a later call
NotRewritten(i) ==
    \A j \in (i + 1)..Len(attempts) :
        batch.schemas[j].node_type # batch.schemas[i].node_type

\* every file of the bundle of the i-th schema holds its generated text
BundleWritten(i) ==
    \A k \in DOMAIN ClaimedOrder :
        fs[<<batch.schemas[i].node_type.v, ClaimedOrder[k]>>]
            = FileWith(FileData(ClaimedOrder[k], batch.schemas[i], batch.server_url))

\* C27: cmd_generate calls generate for every selected tool exactly once and
\* in list order; a failure is reported with the tool's name and the error
\* message, and the bundles of the other tools are generated all the same.
C27_BatchContinues ==
    bmode = "cli" =>
        /\ AttemptedInOrder
        /\ Len(reports) = Len(attempts)
        /\ \A i \in DOMAIN attempts :
              /\ reports[i].name = batch.schemas[i].name.v
              /\ attempts[i].failed # 0 =>
                    reports[i].stream = "stderr" /\ reports[i].detail = <<"OSError">>
              /\ attempts[i].failed = 0 =>
                    reports[i].stream = "stdout"
        /\ bresult # PyNone =>
              /\ bresult = PyInt(0)
              /\ Len(attempts) = Len(batch.schemas)
              /\ \A i \in DOMAIN attempts :
                    (attempts[i].failed = 0 /\ NotRewritten(i)) => BundleWritten(i)

\* the first of two tools failed, the second was generated
C27_Witness ==
    /\ bmode = "cli" /\ bresult = PyInt(0)
    /\ Len(attempts) = 2
    /\ attempts[1].failed # 0 /\ attempts[2].failed = 0
    /\ batch.schemas[1].node_type # batch.schemas[2].node_type
    /\ reports[1].stream = "stderr" /\ reports[2].stream = "stdout"
    /\ BundleWritten(2)

\* generate_all: what holds in every state
AllSequential ==
    bmode = "all" =>
        /\ AttemptedInOrder
        /\ \A i \in 1..(Len(attempts) - 1) : attempts[i].failed = 0
        /\ bresult.t = "list" =>
              /\ Len(bresult.v) = Len(batch.schemas)
              /\ \A i \in DOMAIN bresult.v : bresult.v[i] = batch.schemas[i].node_type
              /\ \A i \in DOMAIN attempts : attempts[i].failed = 0
        /\ (attempts # <<>> /\ attempts[Len(attempts)].failed # 0) =>
              /\ bresult = GenRaised
              /\ bresult.t # "list"

\* once generate_all has raised, nothing more is generated
AllStopsAtFailure ==
    (bmode = "all" /\ bresult = GenRaised) => UNCHANGED <<fs, attempts, paths, bresult>>

\* the files of the bundles written before the failing call are as they were
\* before it
EarlierBundlesKept ==
    (bmode = "all" /\ bresult = GenRaised) =>
        \A i \in 1..(Len(attempts) - 1) :
            \A k \in DOMAIN ClaimedOrder :
                fs[<<batch.schemas[i].node_type.v, ClaimedOrder[k]>>]
                    = fsBefore[<<batch.schemas[i].node_type.v, ClaimedOrder[k]>>]

\* C28 as stated: generate_all generates one schema after the other in input
\* order and returns one path per schema in that order; when one generation
\* fails the error propagates, no later schema is generated, no list is
\* returned, and the bundles of the earlier schemas are unchanged.
C28_GenerateAllAsStated ==
    [](AllSequential /\ EarlierBundlesKept) /\ [][AllStopsAtFailure]_vars

\* every file outside the directory of the failing schema is as it was before
\* the failing call
OtherDirectoriesKept ==
    (bmode = "all" /\ bresult = GenRaised) =>
        \A p \in DOMAIN fs :
            p[1] # batch.schemas[Len(attempts)].node_type.v => fs[p] = fsBefore[p]

\* C28 (amended): as stated, except that the bundles of the earlier schemas
\* are unchanged when their identifier differs from that of the failing
\* schema; every file outside the failing schema's directory is unchanged.
C28_GenerateAll ==
    [](AllSequential /\ OtherDirectoriesKept) /\ [][AllStopsAtFailure]_vars

\* the second of two schemas of different identifiers failed after the first
\* bundle was written
C28_Witness ==
    /\ bmode = "all" /\ bresult = GenRaised
    /\ Len(attempts) = 2
    /\ attempts[1].failed = 0 /\ attempts[2].failed # 0
    /\ batch.schemas[1].node_type # batch.schemas[2].node_type
    /\ BundleWritten(1)

=============================================================================
